---- MODULE Spec2Model ----
(***************************************************************************)
(* A model of the momento-proxy request engine: the memcache connection    *)
(* pipeline (reader, dispatch tasks, response channel, in-order writer),   *)
(* the dispatchers get / set / delete with the local cache in front of the *)
(* backend, the two CacheBackend implementations and the LocalCache tiers. *)
(*                                                                         *)
(* Granularity: one action is one poll of a task, i.e. the code between    *)
(* two await points that can suspend (socket read/write, channel recv,     *)
(* a backend call).  Dispatch tasks are tokio::spawn'ed and interleave     *)
(* freely with each other and with the reader and the writer.              *)
(***************************************************************************)
EXTENDS Integers, Sequences, FiniteSets, TLC

\* ------------------------------------------------------------------ bounds
MaxReqs == 3            \* requests a client sends on the connection
MaxKeys == 3            \* keys of one get request
ChannelCap == 1024      \* mpsc::channel(1024), frontend.rs:104
TicksPerSec == 2        \* clock ticks in a second: the clock runs in half seconds
MaxNow == 6             \* the clock stops after this many ticks

\* ------------------------------------------------------------ data universe
Keys == {"a", "b", "c"}

\* protocol_memcache::Value::new(key, flags, None, data); `some` is the Option tag
NoValue == [some |-> FALSE, key |-> "", flags |-> 0, data |-> <<>>]
Value(k, f, d) == [some |-> TRUE, key |-> k, flags |-> f, data |-> d]

\* what the backend server holds for a key: raw bytes, or nothing
NoBytes == [some |-> FALSE, bytes |-> <<>>]
Bytes(b) == [some |-> TRUE, bytes |-> b]

\* ------------------------------------------------------------- byte helpers
\* u32::to_be_bytes
ToBeBytes(f) ==
    << (f \div 16777216) % 256, (f \div 65536) % 256, (f \div 256) % 256, f % 256 >>

\* u32::from_be_bytes([v[0], v[1], v[2], v[3]])
FromBeBytes(v) == v[1] * 16777216 + v[2] * 65536 + v[3] * 256 + v[4]

\* value[4..]
Skip4(v) == SubSeq(v, 5, Len(v))

\* --------------------------------------------------------------- requests
\* request.ttl().get(): Option<i32>, the seconds of a client-specified TTL
NoTtl == [some |-> FALSE, secs |-> 0]
Ttl(t) == [some |-> TRUE, secs |-> t]

GetReq(ks) ==
    [op |-> "get", keys |-> ks, flags |-> 0, value |-> <<>>, ttl |-> NoTtl,
     noreply |-> FALSE]
SetReq(k, f, v) ==
    [op |-> "set", keys |-> <<k>>, flags |-> f, value |-> v, ttl |-> NoTtl,
     noreply |-> FALSE]
DeleteReq(k) ==
    [op |-> "delete", keys |-> <<k>>, flags |-> 0, value |-> <<>>, ttl |-> NoTtl,
     noreply |-> FALSE]
OtherReq ==
    [op |-> "other", keys |-> <<>>, flags |-> 0, value |-> <<>>, ttl |-> NoTtl,
     noreply |-> FALSE]

\* a set with a client-specified TTL (or none) and with or without noreply
SetReqWith(k, f, v, ttl, noreply) ==
    [SetReq(k, f, v) EXCEPT !.ttl = ttl, !.noreply = noreply]

\* -------------------------------------------------------------- responses
Resp(kind, vals, msg) == [kind |-> kind, values |-> vals, msg |-> msg]
RespValues(vals) == Resp("values", vals, "")
RespNotFound == Resp("not_found", <<>>, "")
RespStored == Resp("stored", <<>>, "")
\* Response::stored(true): the response to a stored set that carried noreply
RespStoredNoreply == Resp("stored_noreply", <<>>, "")
RespDeleted == Resp("deleted", <<>>, "")
RespServerError(msg) == Resp("server_error", <<>>, msg)
RespClientError(msg) == Resp("client_error", <<>>, msg)
RespNone == Resp("none", <<>>, "")

\* ------------------------------------------------------------- the backend
\* A backend call in flight or answered.  st: "none" (no call was issued),
\* "pending", "hit", "miss", "ok", "err" (the backend reported an error),
\* "timeout" (the 200 ms deadline passed first).
\* ttl: the Option<Duration> a set hands to the backend, in seconds.
Call(st, b) == [st |-> st, bytes |-> b, ttl |-> NoTtl]
NoCall == Call("none", <<>>)
PendingCall == Call("pending", <<>>)

\* A TTL handed on as the client gave it
SetTtlAsGiven(req) == req.ttl

\* The TTL set hands to the backend: request.ttl().get().map(|ttl| ttl.max(1)),
\* in seconds
SetTtl(req) ==
    IF req.ttl.some THEN Ttl(IF req.ttl.secs > 1 THEN req.ttl.secs ELSE 1) ELSE NoTtl

\* The expiration LocalMemcachedBackend::set hands to memcached for that TTL:
\* ttl.map(|d| d.as_secs() as u32).unwrap_or(0); the seconds come from an i32
\* and the cast to u32 keeps them
MemcachedExpiration(ttl) == IF ttl.some THEN ttl.secs ELSE 0

\* The transport value set hands to the backend: flags mode prepends the
\* 4 big-endian bytes of the flags to the payload.
SetTransportValue(flagsMode, req) ==
    IF flagsMode THEN ToBeBytes(req.flags) \o req.value ELSE req.value

\* What the backend server ends up holding after CacheBackend::set(value).
\* momento: the transport value as it is.  memcached: LocalMemcachedBackend::set
\* drops the first 4 bytes of every value of 4 bytes or more and stores the rest.
BackendStored(kind, value) ==
    IF kind = "memcached"
        THEN (IF Len(value) >= 4 THEN Skip4(value) ELSE value)
        ELSE value

\* What CacheBackend::get returns in GetResponse::Hit for the bytes the server
\* holds.  memcached: LocalMemcachedBackend::get prepends 4 zero bytes.
BackendHitValue(kind, held) ==
    IF kind = "memcached" THEN <<0, 0, 0, 0>> \o held ELSE held

\* run_get: the outcome of one key's backend call as the dispatcher sees it.
\* res: "some" (Ok(Some((id, value)))), "none" (Ok(None)), "err" (Err(e)).
RunGet(flagsMode, key, call) ==
    CASE call.st = "hit" ->
            IF flagsMode /\ Len(call.bytes) < 5
                THEN [res |-> "none", value |-> NoValue, msg |-> ""]
            ELSE IF flagsMode
                THEN [res |-> "some",
                      value |-> Value(key, FromBeBytes(call.bytes), Skip4(call.bytes)),
                      msg |-> ""]
            ELSE [res |-> "some", value |-> Value(key, 0, call.bytes), msg |-> ""]
      [] call.st = "miss" -> [res |-> "none", value |-> NoValue, msg |-> ""]
      [] call.st = "timeout" -> [res |-> "err", value |-> NoValue, msg |-> "backend timeout"]
      [] OTHER -> [res |-> "err", value |-> NoValue, msg |-> "backend error"]


\* ---------------------------------------------------------------- the state
VARIABLES
    cfg,            \* [flags, cache, backend, ttl, and max_bytes where it matters]:
                    \* the cache's configuration
    client_eof,     \* the reader has met the end of the client's stream
    seen,           \* seen[i]: responses on the wire when the client sent request i
    reader_pc,      \* "read" (in do_read2), "grace" (the 60 s loop), "done",
                    \* "returned" (left at a malformed request)
    sequence,       \* Arc<AtomicU64> sequence
    read_alive,     \* Arc<AtomicBool>
    write_alive,    \* Arc<AtomicBool>
    tasks,          \* tasks[s + 1]: the dispatch task of the request with sequence s
    channel,        \* the mpsc channel from the dispatch tasks to the writer
    writer_pc,      \* "recv" (in receiver.recv), "write" (in do_write2), "done"
    next_sequence,  \* the writer's next_sequence
    backlog,        \* the writer's BTreeMap, as a set of [seq, resp]
    write_buffer,   \* responses composed and not yet written
    wire,           \* responses written to the client socket, in order
    local,          \* the local cache (shared by all tasks): key -> entry
    store,          \* what the backend server holds: key -> Bytes
    now,            \* the clock (Instant::now, SystemTime::now), in ticks
    process,        \* "running", or "exited" once std::process::exit was called
    got,            \* what the last LocalCache::get returned, and when
    latency,        \* latency[rpc][result]: observations of the RpcMetrics histograms
    resp_pc,        \* handle_resp_client: "read" (in do_read), "call" (in the backend
                    \* call), "write", "write_malformed" (in write_all); left the
                    \* loop: "hangup", "write_error", "fatal"
    resp_buf,       \* handle_resp_client: buf, the requests in the ingress buffer
    result,         \* handle_resp_client: the dispatcher's ProxyResult
    response_buf,   \* handle_resp_client: the lines of the response
    resp_wire,      \* lines written to the socket of the RESP client, in order
    advanced,       \* how many requests buf.advance(consumed) has dropped from buf
    next_worker,    \* LocalMemcachedBackend: next_worker, the round-robin counter
    workers,        \* workers[w]: the commands in the inbox of worker w, oldest first
    worker_pc,      \* memcached_worker w: "connect", "sleep" (the 100 ms), "recv",
                    \* "execute"
    stream,         \* stream[w]: "none", "ok", or "failed" once a command has met an
                    \* I/O error on it
    cmds,           \* cmds[n]: the n-th command callers have made, see Command
    executed,       \* executed[w]: the commands worker w has taken, in order
    recorded_flag,  \* recorded: the flag one RpcCallGuard shares with its clones
    clones          \* how many of that guard and its clones are alive

vars == << cfg, client_eof, seen, reader_pc, sequence, read_alive,
           write_alive, tasks, channel, writer_pc, next_sequence, backlog,
           write_buffer, wire, local, store, now, process, got, latency,
           resp_pc, resp_buf, result, response_buf, resp_wire, advanced,
           next_worker, workers, worker_pc, stream, cmds, executed, recorded_flag,
           clones >>

clientVars == << client_eof, seen >>
readerVars == << reader_pc, sequence >>
writerVars == << writer_pc, next_sequence, backlog, write_buffer, wire >>
dataVars == << local, store >>
hostVars == << now, process, got >>
respVars == << resp_pc, resp_buf, result, response_buf, resp_wire, advanced >>
poolVars == << next_worker, workers, worker_pc, stream, cmds, executed >>
guardVars == << recorded_flag, clones >>

\* ------------------------------------------------------------- local cache
\* cfg.cache names the tier: "none" (no memory cache configured), "moka"
\* (SyncMokaCache), "moka_async" (AsyncMokaCache), "foyer" (FoyerCache).
Tiers == {"moka", "moka_async", "foyer"}

\* Whole seconds of a time or duration in ticks: Duration::as_secs
Secs(t) == t \div TicksPerSec

\* What a tier holds for a key.  The moka tiers hold the CacheEntry { value,
\* expire_at } under the Expiry policy MCacheExpiry; FoyerCache holds a SerdeEntry
\* { key, data, flags, expire_at_secs }.  A tier uses its own expiry field only.
NoEntry ==
    [some |-> FALSE, key |-> "", flags |-> 0, data |-> <<>>, expire_at |-> 0,
     expire_at_secs |-> 0]

\* Option<CacheEntry>, what LocalCache::get returns
NoCacheEntry == [some |-> FALSE, value |-> NoValue, expire_at |-> 0]
CacheEntry(v, expire_at) == [some |-> TRUE, value |-> v, expire_at |-> expire_at]

\* The entry a tier with TTL ttl makes at time t for a value that is set.  The
\* moka tiers keep the value as it is, with expire_at = Instant::now() + ttl;
\* FoyerCache::set builds a SerdeEntry from the value's key and data, with
\* flags: 0 and expire_at_secs = now.as_secs() + ttl.as_secs().
EntryOf(tier, ttl, t, v) ==
    IF tier = "foyer"
        THEN [some |-> TRUE, key |-> v.key, flags |-> 0, data |-> v.data,
              expire_at |-> 0, expire_at_secs |-> Secs(t) + Secs(ttl)]
        ELSE [some |-> TRUE, key |-> v.key, flags |-> v.flags, data |-> v.data,
              expire_at |-> t + ttl, expire_at_secs |-> 0]

\* Duration::from_secs(5 * 365 * 24 * 3600), in ticks
FiveYears == 5 * 365 * 24 * 3600 * TicksPerSec

\* Duration::MAX, the longest Duration there is (u64::MAX seconds): the longest
\* duration of the model, longer than every other one a configuration gives
DurationMax == 2000000000

\* The TTL main hands to the local cache for memory_cache_ttl_seconds = secs:
\* Duration::MAX for 0, else Duration::from_secs(secs); in ticks
LocalCacheTtl(secs) == IF secs = 0 THEN DurationMax ELSE secs * TicksPerSec

\* A tier that keeps the TTL it is given
TierTtlAsGiven(ttl) == ttl

\* The TTL a tier keeps of the one it is built with: std::cmp::min(ttl, 5 years)
TierTtl(ttl) == IF ttl < FiveYears THEN ttl ELSE FiveYears

\* What a tier keeps for a value that is set now
TierEntry(tier, v) == EntryOf(tier, TierTtl(cfg.ttl), now, v)

\* The value a tier's get builds from an entry it holds.  FoyerCache::get makes
\* Value::new(entry.key, entry.flags, None, entry.data).
TierValue(tier, e) == Value(e.key, e.flags, e.data)

\* A get that takes an entry for live as long as now <= its expiry
TierGetLate(tier, e) ==
    IF ~e.some THEN NoCacheEntry
    ELSE IF tier = "foyer"
        THEN LET d == e.expire_at_secs - Secs(now)
                 remaining_secs == IF d > 0 THEN d ELSE 0
             IN  IF remaining_secs >= 0
                     THEN CacheEntry(TierValue(tier, e), now + remaining_secs * TicksPerSec)
                     ELSE NoCacheEntry
        ELSE IF e.expire_at < now THEN NoCacheEntry
             ELSE CacheEntry(TierValue(tier, e), e.expire_at)

\* The get of a tier on the entry e it holds for the key.  FoyerCache::get
\* returns the entry when remaining_secs > 0, with expire_at = Instant::now() +
\* remaining_secs.  A moka cache returns the entry until the duration
\* MCacheExpiry gave, expire_at - (time of the insert), has passed.
TierGet(tier, e) ==
    IF ~e.some THEN NoCacheEntry
    ELSE IF tier = "foyer"
        THEN LET d == e.expire_at_secs - Secs(now)
                 remaining_secs == IF d > 0 THEN d ELSE 0
             IN  IF remaining_secs > 0
                     THEN CacheEntry(TierValue(tier, e), now + remaining_secs * TicksPerSec)
                     ELSE NoCacheEntry
        ELSE IF e.expire_at <= now THEN NoCacheEntry
             ELSE CacheEntry(TierValue(tier, e), e.expire_at)

\* memory_cache.get(key) and into_value: Option<Value> (an absent memory_cache
\* never hits)
LocalGet(l, k) ==
    IF cfg.cache = "none" THEN NoValue ELSE TierGet(cfg.cache, l[k]).value

\* memory_cache.set(key, value), when a memory cache is configured
LocalSet(l, k, v) ==
    IF cfg.cache = "none" THEN l ELSE [l EXCEPT ![k] = TierEntry(cfg.cache, v)]

\* memory_cache.delete(key), when a memory cache is configured
LocalDelete(l, k) == IF cfg.cache = "none" THEN l ELSE [l EXCEPT ![k] = NoEntry]

\* key.len(): every key of Keys is one byte long
KeyLen(k) == 1

\* size_of::<protocol_memcache::Value>(), the fixed part of the weight of an
\* entry of the moka tiers: some positive number of bytes
ValueSize == 2

\* The fixed part of the weight of an entry of FoyerCache
FoyerOverhead == 32

\* A weigher that leaves the key out
WeighDataOnly(tier, k, e) ==
    IF tier = "foyer" THEN Len(e.data) + FoyerOverhead ELSE Len(e.data) + ValueSize

\* The weight the weigher of a tier gives the entry e held under key k.  moka:
\* weigh, key.len() + value.len() + size_of::<Value>().  foyer: the weighter
\* of FoyerCache::new, k.0.len() + v.key.len() + v.data.len() + 32.
Weigh(tier, k, e) ==
    IF tier = "foyer"
        THEN KeyLen(k) + KeyLen(e.key) + Len(e.data) + FoyerOverhead
        ELSE KeyLen(k) + Len(e.data) + ValueSize

\* The weights of the entries the cache l holds under the keys ks, added up
RECURSIVE WeightedSize(_, _)
WeightedSize(l, ks) ==
    IF ks = {} THEN 0
    ELSE LET k == CHOOSE x \in ks : TRUE
         IN  (IF l[k].some THEN Weigh(cfg.cache, k, l[k]) ELSE 0)
                 + WeightedSize(l, ks \ {k})

\* The capacity the cache is built with: max_capacity(max_bytes) for the moka
\* tiers, memory(memory_bytes) for FoyerCache
MaxCapacity == cfg.max_bytes

\* ------------------------------------------------------------------ metrics
\* The RpcMetrics of the memcache requests, and the histograms of each
Rpcs == {"memcached_get", "memcached_set", "memcached_delete", "memcached_unimplemented"}
NoObservations ==
    [ok |-> 0, error |-> 0, timeout |-> 0, miss |-> 0, hit_mcache |-> 0, hit_momento |-> 0]

\* An RpcCallGuard at work: the recorded flag it shares with its clones, and the
\* observations lat of the histograms of its rpc
Guard(recorded, lat) == [recorded |-> recorded, lat |-> lat]

\* histogram.observe(elapsed), with the claim of the flag that goes before it
Observe(g, h) == [recorded |-> TRUE, lat |-> [g.lat EXCEPT ![h] = @ + 1]]

\* A complete_ok that observes whatever the flag says
CompleteOkUnguarded(g) == Observe(g, "ok")

\* complete_ok, complete_error: observe when the compare_exchange of recorded
\* from false to true succeeds
CompleteOk(g) == IF ~g.recorded THEN Observe(g, "ok") ELSE g
CompleteError(g) == IF ~g.recorded THEN Observe(g, "error") ELSE g

\* complete_miss, complete_hit_mcache, complete_hit_momento: set recorded and
\* observe whatever it was
CompleteMiss(g) == Observe(g, "miss")
CompleteHitMcache(g) == Observe(g, "hit_mcache")
CompleteHitMomento(g) == Observe(g, "hit_momento")

\* A drop that observes a timeout whatever the flag says
GuardDropUnguarded(g) == Observe(g, "timeout")

\* Drop for RpcCallGuard: a guard dropped with recorded still false observes a
\* timeout
GuardDrop(g) == IF ~g.recorded THEN Observe(g, "timeout") ELSE g

\* ResponseWrappingError::is_error for a memcache response
IsError(resp) == resp.kind \in {"server_error", "client_error", "error"}

\* with_wrapped_error_response_rpc_call_guard once the future has returned
\* response resp, and the drop of its recorder
WrappedGuard(resp, g) == GuardDrop(IF IsError(resp) THEN CompleteError(g) ELSE CompleteOk(g))

\* with_rpc_call_guard once the future has returned (ok: Ok(_)), and the drop of
\* its recorder
RpcGuard(ok, g) == GuardDrop(IF ok THEN CompleteOk(g) ELSE CompleteError(g))

\* memcache::get, first loop: mcache_recorder.complete_hit_mcache() for every
\* key found in the local cache, from slot i on
RECURSIVE GetLookupGuard(_, _, _)
GetLookupGuard(slots, i, g) ==
    IF i > Len(slots) THEN g
    ELSE GetLookupGuard(slots, i + 1, IF slots[i].some THEN CompleteHitMcache(g) ELSE g)

\* run_get on its clone of the recorder, for the answer call of the backend:
\* complete_hit_momento for a value, complete_miss for none, nothing for an
\* error or a timeout; the clone is dropped when run_get returns
RunGetGuard(flagsMode, call, g) ==
    LET r == RunGet(flagsMode, "", call)
    IN  GuardDrop(CASE r.res = "some" -> CompleteHitMomento(g)
                    [] r.res = "none" -> CompleteMiss(g)
                    [] OTHER -> g)

\* The guards of a get once memcache::get has returned resp: mcache_recorder
\* is dropped, the wrapper completes and drops its clone, and
\* handle_memcache_request drops the recorder it made
GetFinishGuard(resp, g) == GuardDrop(WrappedGuard(resp, GuardDrop(g)))

\* ---------------------------------------------- one guard and its clones
\* The clones one guard may have at a time, and the observations a histogram
\* takes in the model
MaxClones == 3
MaxObs == 2

\* The guard under study: the guard of a memcached_get and its clones
TheGuard == Guard(recorded_flag, latency["memcached_get"])

\* recorder.clone(): one more guard on the same flag and histograms
GuardClone ==
    /\ clones >= 1
    /\ clones < MaxClones
    /\ clones' = clones + 1
    /\ UNCHANGED << cfg, poolVars, latency, recorded_flag, hostVars, clientVars, readerVars,
                    read_alive, write_alive, tasks, channel, writerVars, dataVars, respVars >>

\* One of the guards that are alive is completed with one of the complete_*
GuardComplete(kind) ==
    /\ clones >= 1
    /\ latency["memcached_get"][kind] < MaxObs
    /\ LET g == CASE kind = "ok" -> CompleteOk(TheGuard)
                  [] kind = "error" -> CompleteError(TheGuard)
                  [] kind = "miss" -> CompleteMiss(TheGuard)
                  [] kind = "hit_mcache" -> CompleteHitMcache(TheGuard)
                  [] kind = "hit_momento" -> CompleteHitMomento(TheGuard)
       IN  /\ recorded_flag' = g.recorded
           /\ latency' = [latency EXCEPT !["memcached_get"] = g.lat]
    /\ UNCHANGED << cfg, poolVars, clones, hostVars, clientVars, readerVars,
                    read_alive, write_alive, tasks, channel, writerVars, dataVars, respVars >>

\* One of the guards that are alive is dropped
GuardDropOne ==
    /\ clones >= 1
    /\ clones' = clones - 1
    /\ recorded_flag' = GuardDrop(TheGuard).recorded
    /\ latency' = [latency EXCEPT !["memcached_get"] = GuardDrop(TheGuard).lat]
    /\ UNCHANGED << cfg, poolVars, hostVars, clientVars, readerVars,
                    read_alive, write_alive, tasks, channel, writerVars, dataVars, respVars >>

\* ------------------------------------------------------------ dispatch tasks
\* A dispatch task: the sequence number and the request it was spawned with, its
\* position, the get's values (slots) and backend calls, and the recorded flag
\* that the RpcCallGuard of the request shares with its clones
Task(seq, req, pc, slots, calls, recorded) ==
    [seq |-> seq, req |-> req, pc |-> pc, slots |-> slots, calls |-> calls,
     recorded |-> recorded]

\* A first loop that pushes a run_get for every key, found locally or not
GetLookupCallsAll(req, l) ==
    LET n == Len(req.keys)
    IN  [slots |-> [i \in 1..n |-> LocalGet(l, req.keys[i])],
         calls |-> [i \in 1..n |-> PendingCall]]

\* memcache::get, first loop: look every key up in the local cache; a hit fills
\* the key's slot, a miss (or no cache) pushes one run_get on the FuturesOrdered.
GetLookup(req, l) ==
    LET n == Len(req.keys)
        slots == [i \in 1..n |-> LocalGet(l, req.keys[i])]
    IN  [slots |-> slots,
         calls |-> [i \in 1..n |-> IF slots[i].some THEN NoCall ELSE PendingCall]]

\* A second loop that takes a failed or timed-out call for a miss
RECURSIVE GetMergeErrAsMiss(_, _, _, _)
GetMergeErrAsMiss(t, i, l, slots) ==
    IF i > Len(t.calls) THEN [local |-> l, slots |-> slots, err |-> ""]
    ELSE IF t.calls[i].st = "none" THEN GetMergeErrAsMiss(t, i + 1, l, slots)
    ELSE LET r == RunGet(cfg.flags, t.req.keys[i], t.calls[i])
         IN  IF r.res = "some"
                 THEN GetMergeErrAsMiss(t, i + 1, LocalSet(l, r.value.key, r.value),
                                        [slots EXCEPT ![i] = r.value])
                 ELSE GetMergeErrAsMiss(t, i + 1, l, slots)

\* memcache::get, second loop, from position i on: the results come in the order
\* the calls were pushed; Ok(Some) backfills the local cache and fills the slot,
\* the first Err returns SERVER_ERROR at once.
RECURSIVE GetMerge(_, _, _, _)
GetMerge(t, i, l, slots) ==
    IF i > Len(t.calls) THEN [local |-> l, slots |-> slots, err |-> ""]
    ELSE IF t.calls[i].st = "none" THEN GetMerge(t, i + 1, l, slots)
    ELSE LET r == RunGet(cfg.flags, t.req.keys[i], t.calls[i])
         IN  CASE r.res = "some" ->
                    GetMerge(t, i + 1, LocalSet(l, r.value.key, r.value),
                             [slots EXCEPT ![i] = r.value])
               [] r.res = "none" -> GetMerge(t, i + 1, l, slots)
               [] OTHER -> [local |-> l, slots |-> slots, err |-> r.msg]

\* A collect that yields the values last slot first
RECURSIVE FlattenReversed(_)
FlattenReversed(slots) ==
    IF slots = <<>> THEN <<>>
    ELSE IF Head(slots).some THEN FlattenReversed(Tail(slots)) \o <<Head(slots)>>
    ELSE FlattenReversed(Tail(slots))

\* values.drain(..).flatten().collect()
RECURSIVE Flatten(_)
Flatten(slots) ==
    IF slots = <<>> THEN <<>>
    ELSE IF Head(slots).some THEN <<Head(slots)>> \o Flatten(Tail(slots))
    ELSE Flatten(Tail(slots))

\* memcache::get, the response
GetResponse(m) ==
    IF m.err # "" THEN RespServerError(m.err)
    ELSE IF Flatten(m.slots) # <<>> THEN RespValues(Flatten(m.slots))
    ELSE RespNotFound

\* A set that reports a missed deadline as it reports a failure of the backend
SetResponseNoTimeout(t) ==
    IF t.req.value = <<>> THEN RespClientError("empty values not supported")
    ELSE IF t.calls[1].st = "ok"
        THEN (IF t.req.noreply THEN RespStoredNoreply ELSE RespStored)
        ELSE RespServerError("backend error")

\* memcache::set, the response for the outcome of the backend call
SetResponse(t) ==
    IF t.req.value = <<>> THEN RespClientError("empty values not supported")
    ELSE CASE t.calls[1].st = "ok" ->
                IF t.req.noreply THEN RespStoredNoreply ELSE RespStored
           [] t.calls[1].st = "timeout" -> RespServerError("backend timeout")
           [] OTHER -> RespServerError("backend error")

\* memcache::delete, the response for the outcome of the backend call
DeleteResponse(t) ==
    CASE t.calls[1].st = "ok" -> RespDeleted
      [] t.calls[1].st = "timeout" -> RespServerError("backend timeout")
      [] OTHER -> RespServerError("backend error")

\* A set that fills the local cache and calls the backend before it looks at
\* the value
SetStartUnchecked(req, l) ==
    [call |-> [Call("pending", SetTransportValue(cfg.flags, req))
                  EXCEPT !.ttl = SetTtl(req)],
     local |-> LocalSet(l, req.keys[1],
                        Value(req.keys[1], IF cfg.flags THEN req.flags ELSE 0,
                              req.value))]

\* memcache::set up to the backend call, on the local cache l: an empty value
\* returns at once, with no backend call and the local cache as it was; otherwise
\* the value goes into the local cache and the backend set is sent
SetStart(req, l) ==
    IF req.value = <<>>
        THEN [call |-> NoCall, local |-> l]
        ELSE [call |-> [Call("pending", SetTransportValue(cfg.flags, req))
                           EXCEPT !.ttl = SetTtl(req)],
              local |-> LocalSet(l, req.keys[1],
                                 Value(req.keys[1], IF cfg.flags THEN req.flags ELSE 0,
                                       req.value))]

\* handle_memcache_request up to its first suspension
TaskStart(s) ==
    /\ process = "running"
    /\ s \in 1..Len(tasks)
    /\ tasks[s].pc = "spawned"
    /\ LET req == tasks[s].req
       IN  CASE req.op = "get" ->
                  LET g == GetLookup(req, local)
                      m == GetLookupGuard(g.slots, 1,
                                          Guard(FALSE, latency["memcached_get"]))
                  IN  /\ tasks' = [tasks EXCEPT ![s] =
                            Task(tasks[s].seq, req, "await", g.slots, g.calls, m.recorded)]
                      /\ latency' = [latency EXCEPT !["memcached_get"] = m.lat]
                      /\ local' = local
             [] req.op = "set" ->
                  /\ tasks' = [tasks EXCEPT ![s] =
                                  Task(tasks[s].seq, req, "await", <<>>,
                                       <<SetStart(req, local).call>>, FALSE)]
                  /\ latency' = latency
                  /\ local' = SetStart(req, local).local
             [] req.op = "delete" ->
                  /\ tasks' = [tasks EXCEPT ![s] =
                                  Task(tasks[s].seq, req, "await", <<>>, <<PendingCall>>,
                                       FALSE)]
                  /\ latency' = latency
                  /\ local' = LocalDelete(local, req.keys[1])
             [] OTHER ->
                  /\ tasks' = [tasks EXCEPT ![s] =
                                  Task(tasks[s].seq, req, "await", <<>>, <<>>, FALSE)]
                  /\ latency' = latency
                  /\ local' = local
    /\ UNCHANGED << cfg, poolVars, guardVars, respVars,
                    hostVars, clientVars, readerVars, read_alive, write_alive, channel,
                    writerVars, store >>

\* The backend answers (or fails, or misses the 200 ms deadline of) call i of
\* task s.  A get reads the server's store; an answered set or delete changes it;
\* a call that timed out may or may not have been applied.
BackendReply(s, i, outcome) ==
    /\ process = "running"
    /\ s \in 1..Len(tasks)
    /\ tasks[s].pc = "await"
    /\ i \in 1..Len(tasks[s].calls)
    /\ tasks[s].calls[i].st = "pending"
    /\ LET req == tasks[s].req
           k == req.keys[i]
           call == tasks[s].calls[i]
       IN  CASE req.op = "get" ->
                  /\ outcome \in {"answer", "err", "timeout"}
                  /\ LET answer ==
                            CASE outcome = "answer" /\ store[k].some ->
                                    Call("hit", BackendHitValue(cfg.backend, store[k].bytes))
                              [] outcome = "answer" -> Call("miss", <<>>)
                              [] OTHER -> Call(outcome, <<>>)
                         m == RunGetGuard(cfg.flags, answer,
                                          Guard(tasks[s].recorded, latency["memcached_get"]))
                     IN  /\ tasks' = [tasks EXCEPT ![s].calls[i] = answer,
                                                   ![s].recorded = m.recorded]
                         /\ latency' = [latency EXCEPT !["memcached_get"] = m.lat]
                  /\ store' = store
             [] req.op = "set" ->
                  /\ tasks' = [tasks EXCEPT ![s].calls[i] =
                        [call EXCEPT !.st =
                             CASE outcome = "answer" -> "ok"
                               [] outcome = "applied_timeout" -> "timeout"
                               [] OTHER -> outcome]]
                  /\ latency' = latency
                  /\ store' = IF outcome \in {"answer", "applied_timeout"}
                                THEN [store EXCEPT ![k] =
                                          Bytes(BackendStored(cfg.backend, call.bytes))]
                                ELSE store
             [] OTHER ->
                  /\ tasks' = [tasks EXCEPT ![s].calls[i] =
                        Call(CASE outcome = "answer" -> "ok"
                               [] outcome = "applied_timeout" -> "timeout"
                               [] OTHER -> outcome, <<>>)]
                  /\ latency' = latency
                  /\ store' = IF outcome \in {"answer", "applied_timeout"}
                                THEN [store EXCEPT ![k] = NoBytes]
                                ELSE store
    /\ UNCHANGED << cfg, poolVars, guardVars, respVars,
                    hostVars, clientVars, readerVars, read_alive, write_alive, channel,
                    writerVars, local >>

Outcomes == {"answer", "err", "timeout", "applied_timeout"}

\* The message handle_memcache_request sends on the channel
Msg(ok, s, resp) == [ok |-> ok, seq |-> s, resp |-> resp]

\* handle_memcache_request once every backend call of the task is settled: the
\* rest of the dispatcher (get: merge and backfill) and channel.send.
TaskFinish(s) ==
    /\ process = "running"
    /\ s \in 1..Len(tasks)
    /\ tasks[s].pc = "await"
    /\ \A i \in 1..Len(tasks[s].calls) : tasks[s].calls[i].st # "pending"
    /\ Len(channel) < ChannelCap
    /\ LET t == tasks[s]
           m == GetMerge(t, 1, local, t.slots)
           g == CASE t.req.op = "get" ->
                       GetFinishGuard(GetResponse(m),
                                      Guard(t.recorded, latency["memcached_get"]))
                  [] t.req.op = "set" ->
                       WrappedGuard(SetResponse(t), Guard(FALSE, latency["memcached_set"]))
                  [] t.req.op = "delete" ->
                       WrappedGuard(DeleteResponse(t),
                                    Guard(FALSE, latency["memcached_delete"]))
                  [] OTHER ->
                       RpcGuard(FALSE, Guard(FALSE, latency["memcached_unimplemented"]))
       IN  /\ CASE t.req.op = "get" ->
                    /\ local' = m.local
                    /\ channel' = Append(channel, Msg(TRUE, t.seq, GetResponse(m)))
                    /\ latency' = [latency EXCEPT !["memcached_get"] = g.lat]
               [] t.req.op = "set" ->
                    /\ local' = local
                    /\ channel' = Append(channel, Msg(TRUE, t.seq, SetResponse(t)))
                    /\ latency' = [latency EXCEPT !["memcached_set"] = g.lat]
               [] t.req.op = "delete" ->
                    /\ local' = local
                    /\ channel' = Append(channel, Msg(TRUE, t.seq, DeleteResponse(t)))
                    /\ latency' = [latency EXCEPT !["memcached_delete"] = g.lat]
               [] OTHER ->
                    /\ local' = local
                    /\ channel' = Append(channel, Msg(FALSE, t.seq, RespNone))
                    /\ latency' = [latency EXCEPT !["memcached_unimplemented"] = g.lat]
           /\ tasks' = [tasks EXCEPT ![s].pc = "sent", ![s].recorded = g.recorded]
    /\ UNCHANGED << cfg, poolVars, guardVars, respVars,
                    hostVars, clientVars, readerVars, read_alive, write_alive,
                    writerVars, store >>

\* The dispatch task of sequence s - 1 panics: the panic hook set in main logs
\* the panic and calls std::process::exit(101).
TaskPanic(s) ==
    /\ s \in 1..Len(tasks)
    /\ tasks[s].pc \in {"spawned", "await"}
    /\ process = "running"
    /\ process' = "exited"
    /\ tasks' = [tasks EXCEPT ![s].pc = "panicked"]
    /\ UNCHANGED << cfg, poolVars, guardVars, respVars, latency,
                    now, got, clientVars, readerVars, read_alive, write_alive,
                    channel, writerVars, dataVars >>

\* The local cache drops an entry on its own: its TTL passed, or it was evicted
\* to keep the cache within max_capacity.
LocalExpire(k) ==
    /\ process = "running"
    /\ local[k].some
    /\ local' = [local EXCEPT ![k] = NoEntry]
    /\ UNCHANGED << cfg, poolVars, guardVars, respVars, latency,
                    hostVars, clientVars, readerVars, read_alive, write_alive, tasks,
                    channel, writerVars, store >>


\* The cache library evicts an entry: it does so while the weights its weigher
\* gave the entries it holds add up to more than the capacity it was built with.
CacheEvict(k) ==
    /\ process = "running"
    /\ cfg.cache # "none"
    /\ local[k].some
    /\ WeightedSize(local, Keys) > MaxCapacity
    /\ local' = [local EXCEPT ![k] = NoEntry]
    /\ UNCHANGED << cfg, poolVars, guardVars,
                    respVars, latency, hostVars, clientVars, readerVars, read_alive,
                    write_alive, tasks, channel, writerVars, store >>

\* LocalCache::set(key, value) called on the cache itself
CacheSet(k, v) ==
    /\ process = "running"
    /\ cfg.cache # "none"
    /\ local' = LocalSet(local, k, v)
    /\ UNCHANGED << cfg, poolVars, guardVars,
                    respVars, latency, now, process, got, clientVars, readerVars, read_alive,
                    write_alive, tasks, channel, writerVars, store >>

\* LocalCache::get(key) called on the cache itself; got keeps what it returned
\* and the time of the call
CacheGet(k) ==
    /\ process = "running"
    /\ cfg.cache # "none"
    /\ got' = [entry |-> TierGet(cfg.cache, local[k]), at |-> now]
    /\ UNCHANGED << cfg, poolVars, guardVars,
                    respVars, latency, now, process, clientVars, readerVars, read_alive,
                    write_alive, tasks, channel, writerVars, dataVars >>

\* LocalCache::delete(key) called on the cache itself
CacheDelete(k) ==
    /\ process = "running"
    /\ cfg.cache # "none"
    /\ local' = LocalDelete(local, k)
    /\ UNCHANGED << cfg, poolVars, guardVars,
                    respVars, latency, now, process, got, clientVars, readerVars, read_alive,
                    write_alive, tasks, channel, writerVars, store >>

\* The clock advances by one tick
Tick ==
    /\ process = "running"
    /\ now < MaxNow
    /\ now' = now + 1
    /\ UNCHANGED << cfg, poolVars, guardVars,
                    respVars, latency, process, got, clientVars, readerVars, read_alive,
                    write_alive, tasks, channel, writerVars, dataVars >>

\* ----------------------------------------------------------------- reader
\* The requests a client of the connection may send
Requests ==
    {GetReq(<<"a">>), GetReq(<<"b">>), SetReq("b", 42, <<1>>), DeleteReq("b")}

\* A reader that reads the sequence counter and leaves it as it is
ReaderReadLoad(r) ==
    /\ process = "running"
    /\ reader_pc = "read"
    /\ ~client_eof
    /\ Len(tasks) < MaxReqs
    /\ tasks' = Append(tasks, Task(sequence, r, "spawned", <<>>, <<>>, FALSE))
    /\ seen' = Append(seen, Len(wire))
    /\ sequence' = sequence
    /\ reader_pc' = IF read_alive THEN "read" ELSE "grace"
    /\ UNCHANGED << cfg, poolVars, guardVars, respVars, latency,
                    hostVars, client_eof, read_alive, write_alive, channel, writerVars,
                    dataVars >>

\* One turn of the reader loop with data: do_read2 returns with the bytes that
\* complete request r, which the client sent having read what is on the wire;
\* the request gets the next sequence number and a dispatch task of its own,
\* and the loop condition is read again.  (Several requests in one read are
\* several turns with nothing in between: spawning does not suspend.)
ReaderRead(r) ==
    /\ process = "running"
    /\ reader_pc = "read"
    /\ ~client_eof
    /\ Len(tasks) < MaxReqs
    /\ tasks' = Append(tasks, Task(sequence, r, "spawned", <<>>, <<>>, FALSE))
    /\ seen' = Append(seen, Len(wire))
    /\ sequence' = sequence + 1
    /\ reader_pc' = IF read_alive THEN "read" ELSE "grace"
    /\ UNCHANGED << cfg, poolVars, guardVars, respVars, latency,
                    hostVars, client_eof, read_alive, write_alive, channel, writerVars,
                    dataVars >>

\* One turn of the reader loop at end of stream: do_read2 fails, which clears
\* read_alive; nothing parses, and the loop ends.
ReaderEof ==
    /\ process = "running"
    /\ reader_pc = "read"
    /\ ~client_eof
    /\ client_eof' = TRUE
    /\ read_alive' = FALSE
    /\ reader_pc' = "grace"
    /\ UNCHANGED << cfg, poolVars, guardVars, respVars, latency,
                    hostVars, seen, sequence, write_alive, tasks, channel, writerVars,
                    dataVars >>

\* One turn of the reader loop with bytes that do not parse: the handler clears
\* read_alive and returns at once, past the grace loop and the final store to
\* write_alive; nothing is composed or written for the malformed request.
ReaderMalformed ==
    /\ process = "running"
    /\ reader_pc = "read"
    /\ ~client_eof
    /\ read_alive' = FALSE
    /\ reader_pc' = "returned"
    /\ UNCHANGED << cfg, poolVars, guardVars, respVars, latency,
                    hostVars, clientVars, sequence, write_alive, tasks, channel,
                    writerVars, dataVars >>

\* The end of the connection handler: it waits for up to 60 s for write_alive to
\* go false, clears write_alive and returns.
ReaderGrace ==
    /\ process = "running"
    /\ reader_pc = "grace"
    /\ reader_pc' = "done"
    /\ write_alive' = FALSE
    /\ UNCHANGED << cfg, poolVars, guardVars, respVars, latency,
                    hostVars, clientVars, sequence, read_alive, tasks, channel, writer_pc,
                    next_sequence, backlog, write_buffer, wire, dataVars >>

\* ----------------------------------------------------------------- writer
\* protocol.compose_response(request, response, write_buffer); the sequence
\* number is kept with the response to tell the responses on the wire apart
\* Response::stored(true) composes to no bytes at all.
Compose(buf, s, resp) ==
    IF resp.kind = "stored_noreply" THEN buf ELSE Append(buf, [seq |-> s, resp |-> resp])

\* A writer without the 'backlog loop
DrainNot(ns, bl, buf) == [ns |-> ns, bl |-> bl, buf |-> buf]

\* The 'backlog loop: compose the responses the backlog holds for next_sequence
\* and its successors
RECURSIVE Drain(_, _, _)
Drain(ns, bl, buf) ==
    IF bl # {} /\ \E e \in bl : e.seq = ns
        THEN LET e == CHOOSE x \in bl : x.seq = ns
             IN  Drain(ns + 1, bl \ {e}, Compose(buf, ns, e.resp))
        ELSE [ns |-> ns, bl |-> bl, buf |-> buf]

\* A writer that composes every message as it arrives
ReorderNot(ns, bl, buf, m) ==
    [ns |-> ns + 1, bl |-> bl, buf |-> Compose(buf, m.seq, m.resp)]

\* What the writer does with an Ok message of the channel
Reorder(ns, bl, buf, m) ==
    IF m.seq = ns
        THEN Drain(ns + 1, bl, Compose(buf, ns, m.resp))
        ELSE [ns |-> ns,
              bl |-> {e \in bl : e.seq # m.seq} \cup {[seq |-> m.seq, resp |-> m.resp]},
              buf |-> buf]

\* The head of the writer loop: leave when write_alive is false, or when the
\* reader is done and every accepted request has been composed
WriterTop(ra, wa, ns, sq) ==
    IF ~wa THEN [pc |-> "done", wa |-> wa]
    ELSE IF ~ra /\ ns = sq THEN [pc |-> "done", wa |-> FALSE]
    ELSE [pc |-> "recv", wa |-> wa]

\* After a message: write if there is something to write, else loop
AfterRecv(buf, ra, wa, ns, sq) ==
    IF buf # <<>> THEN [pc |-> "write", wa |-> wa] ELSE WriterTop(ra, wa, ns, sq)

\* receiver.recv() returns a message
WriterRecv ==
    /\ process = "running"
    /\ writer_pc = "recv"
    /\ channel # <<>>
    /\ LET m == Head(channel)
           r == Reorder(next_sequence, backlog, write_buffer, m)
           top == AfterRecv(r.buf, read_alive, write_alive, r.ns, sequence)
       IN  IF m.ok
             THEN /\ next_sequence' = r.ns
                  /\ backlog' = r.bl
                  /\ write_buffer' = r.buf
                  /\ writer_pc' = top.pc
                  /\ write_alive' = top.wa
                  /\ read_alive' = read_alive
             ELSE /\ read_alive' = FALSE
                  /\ write_alive' = FALSE
                  /\ writer_pc' = "done"
                  /\ UNCHANGED << next_sequence, backlog, write_buffer >>
    /\ channel' = Tail(channel)
    /\ UNCHANGED << cfg, poolVars, guardVars, respVars, latency,
                    hostVars, clientVars, readerVars, tasks, wire, dataVars >>

\* A writer that clears only its own flag when do_write2 fails
WriterWriteKeepsReading(ok) ==
    /\ process = "running"
    /\ writer_pc = "write"
    /\ IF ok
         THEN LET top == WriterTop(read_alive, write_alive, next_sequence, sequence)
              IN  /\ wire' = wire \o write_buffer
                  /\ write_buffer' = <<>>
                  /\ writer_pc' = top.pc
                  /\ write_alive' = top.wa
                  /\ read_alive' = read_alive
         ELSE /\ read_alive' = read_alive
              /\ write_alive' = FALSE
              /\ writer_pc' = "done"
              /\ UNCHANGED << wire, write_buffer >>
    /\ UNCHANGED << cfg, poolVars, guardVars, respVars, latency,
                    hostVars, clientVars, readerVars, tasks, channel, next_sequence,
                    backlog, dataVars >>

\* The write loop empties write_buffer into the socket (ok), or do_write2 fails
WriterWrite(ok) ==
    /\ process = "running"
    /\ writer_pc = "write"
    /\ IF ok
         THEN LET top == WriterTop(read_alive, write_alive, next_sequence, sequence)
              IN  /\ wire' = wire \o write_buffer
                  /\ write_buffer' = <<>>
                  /\ writer_pc' = top.pc
                  /\ write_alive' = top.wa
                  /\ read_alive' = read_alive
         ELSE /\ read_alive' = FALSE
              /\ write_alive' = FALSE
              /\ writer_pc' = "done"
              /\ UNCHANGED << wire, write_buffer >>
    /\ UNCHANGED << cfg, poolVars, guardVars, respVars, latency,
                    hostVars, clientVars, readerVars, tasks, channel, next_sequence,
                    backlog, dataVars >>

\* receiver.recv() returns None: the handler has returned and every dispatch
\* task has dropped its sender; the loop then finds write_alive false
WriterClosed ==
    /\ process = "running"
    /\ writer_pc = "recv"
    /\ channel = <<>>
    /\ reader_pc \in {"done", "returned"}
    /\ \A s \in 1..Len(tasks) : tasks[s].pc = "sent"
    /\ LET top == WriterTop(read_alive, write_alive, next_sequence, sequence)
       IN  /\ writer_pc' = top.pc
           /\ write_alive' = top.wa
    /\ UNCHANGED << cfg, poolVars, guardVars, respVars, latency,
                    hostVars, clientVars, readerVars, read_alive, tasks, channel,
                    next_sequence, backlog, write_buffer, wire, dataVars >>

\* ------------------------------------------------------ the RESP connection
\* A request as resp::RequestParser hands it out.  cmd: "zscore", "zadd",
\* "zrange", another command the parser knows ("ping"), or "malformed" for
\* bytes that do not parse.  arg: the optional argument of a zadd ("CH", "XX",
\* "NX", "GT", "LT") or the range type of a zrange ("BYLEX"), "" for none.
RespReq(cmd, arg) == [cmd |-> cmd, arg |-> arg]

\* A line of a RESP response: an error line "-ERR <text>[: <arg>]" or a reply
ErrLine(text, arg) == [err |-> TRUE, text |-> text, arg |-> arg]
ReplyLine(text) == [err |-> FALSE, text |-> text, arg |-> ""]

\* ProxyError::from(e): the variant of ProxyError made of an error of another
\* type, each kept in the variant named after it
ProxyErrorFrom(e) ==
    CASE e = "io::Error" -> "io"
      [] e = "Elapsed" -> "timeout"
      [] e = "MomentoError" -> "momento"

\* A dispatcher up to its backend call: zadd with CH, XX, NX, GT or LT and
\* zrange BYLEX return an error made of an io::Error before any call; a command
\* without a dispatcher returns UnsupportedCommand; the others call the backend.
RespDispatch(req) ==
    CASE req.cmd = "zadd" /\ req.arg \in {"CH", "XX", "NX", "GT", "LT"} ->
            [call |-> FALSE, result |-> ProxyErrorFrom("io::Error")]
      [] req.cmd = "zrange" /\ req.arg = "BYLEX" ->
            [call |-> FALSE, result |-> ProxyErrorFrom("io::Error")]
      [] req.cmd \in {"zscore", "zadd", "zrange"} -> [call |-> TRUE, result |-> "none"]
      [] OTHER -> [call |-> FALSE, result |-> "unsupported"]

\* The result of a dispatcher whose backend call ended with outcome
RespCallResult(outcome) ==
    CASE outcome = "answer" -> "ok"
      [] outcome = "err" -> ProxyErrorFrom("MomentoError")
      [] outcome = "timeout" -> ProxyErrorFrom("Elapsed")

\* A handler that closes the connection after every failed request
FatalOnAnyError(res) == res # "ok"

\* let fatal = match result: an Io, UnsupportedCommand or Custom error is fatal
Fatal(res) == res \in {"io", "unsupported", "custom"}

\* response_buf after the match on the result: what the dispatcher wrote for
\* Ok; for an error the buffer is cleared and gets the error's line, none for Io.
RespResponse(req, res, written) ==
    CASE res = "ok" -> written
      [] res = "momento" -> <<ErrLine("backend error", "error")>>
      [] res = "timeout" -> <<ErrLine("backend timeout", "")>>
      [] res = "unsupported" -> <<ErrLine("unsupported command", req.cmd)>>
      [] res = "custom" -> <<ErrLine("message", "")>>
      [] OTHER -> <<>>

\* The lines of response_buf on the socket, each with the number of the request
\* it answers and the result of that request
RespWritten(n, res, lines) ==
    [i \in 1..Len(lines) |-> [req |-> n, result |-> res, line |-> lines[i]]]

\* One turn of the loop of handle_resp_client up to its next suspension:
\* do_read returns with the requests of batch, the parser takes the first
\* request of the buffer, and the handler stops in write_all for a malformed
\* request, in the backend call of the dispatcher, or in write_all with the
\* response of a dispatcher that has returned without a call.
RespRead(batch) ==
    /\ process = "running"
    /\ resp_pc = "read"
    /\ batch # <<>>
    /\ advanced + Len(resp_buf) + Len(batch) <= MaxReqs
    /\ resp_buf' = resp_buf \o batch
    /\ LET req == Head(resp_buf \o batch)
           d == RespDispatch(req)
       IN  IF req.cmd = "malformed"
               THEN /\ resp_pc' = "write_malformed"
                    /\ result' = "none"
                    /\ response_buf' = <<>>
           ELSE IF d.call
               THEN /\ resp_pc' = "call"
                    /\ result' = "none"
                    /\ response_buf' = <<>>
           ELSE /\ resp_pc' = "write"
                /\ result' = d.result
                /\ response_buf' = RespResponse(req, d.result, <<>>)
    /\ UNCHANGED << cfg, poolVars, guardVars,
                    latency, hostVars, clientVars, readerVars, read_alive, write_alive,
                    tasks, channel, writerVars, dataVars, resp_wire, advanced >>

\* do_read fails (the client has hung up): the loop ends
RespEof ==
    /\ process = "running"
    /\ resp_pc = "read"
    /\ resp_pc' = "hangup"
    /\ UNCHANGED << cfg, poolVars, guardVars,
                    latency, hostVars, clientVars, readerVars, read_alive, write_alive,
                    tasks, channel, writerVars, dataVars, resp_buf, result, response_buf,
                    resp_wire, advanced >>

\* The backend call of the dispatcher ends: it answers, fails, or misses the
\* 200 ms deadline; the handler goes on to write_all with the response
RespBackendReply(outcome) ==
    /\ process = "running"
    /\ resp_pc = "call"
    /\ result' = RespCallResult(outcome)
    /\ response_buf' = RespResponse(Head(resp_buf), RespCallResult(outcome),
                                    <<ReplyLine(Head(resp_buf).cmd)>>)
    /\ resp_pc' = "write"
    /\ UNCHANGED << cfg, poolVars, guardVars,
                    latency, hostVars, clientVars, readerVars, read_alive, write_alive,
                    tasks, channel, writerVars, dataVars, resp_buf, resp_wire, advanced >>

\* socket.write_all(&response_buf) returns: on an error the loop ends; after a
\* fatal result it ends too; otherwise buf.advance(consumed) drops the request
\* and the loop goes back to do_read.  (Nothing can fail in a write of nothing.)
RespWrite(ok) ==
    /\ process = "running"
    /\ resp_pc = "write"
    /\ ok \/ response_buf # <<>>
    /\ IF ~ok
           THEN /\ resp_pc' = "write_error"
                /\ UNCHANGED << resp_buf, result, response_buf, resp_wire, advanced >>
       ELSE IF Fatal(result)
           THEN /\ resp_pc' = "fatal"
                /\ resp_wire' = resp_wire \o RespWritten(advanced + 1, result, response_buf)
                /\ UNCHANGED << resp_buf, result, response_buf, advanced >>
       ELSE /\ resp_pc' = "read"
            /\ resp_wire' = resp_wire \o RespWritten(advanced + 1, result, response_buf)
            /\ resp_buf' = Tail(resp_buf)
            /\ advanced' = advanced + 1
            /\ result' = "none"
            /\ response_buf' = <<>>
    /\ UNCHANGED << cfg, poolVars, guardVars,
                    latency, hostVars, clientVars, readerVars, read_alive, write_alive,
                    tasks, channel, writerVars, dataVars >>

\* socket.write_all(b"-ERR malformed request\r\n") returns, its result is
\* dropped, and the loop ends
RespWriteMalformed(ok) ==
    /\ process = "running"
    /\ resp_pc = "write_malformed"
    /\ IF ok
           THEN /\ resp_pc' = "fatal"
                /\ resp_wire' = resp_wire \o
                      RespWritten(advanced + 1, "malformed",
                                  <<ErrLine("malformed request", "")>>)
           ELSE /\ resp_pc' = "write_error"
                /\ resp_wire' = resp_wire
    /\ UNCHANGED << cfg, poolVars, guardVars,
                    latency, hostVars, clientVars, readerVars, read_alive, write_alive,
                    tasks, channel, writerVars, dataVars, resp_buf, result, response_buf,
                    advanced >>

\* ------------------------------------------- the memcached worker pool
\* The workers of LocalMemcachedBackend, by their index in the Vec
NumWorkers == 2
Workers == 0..(NumWorkers - 1)

\* mpsc::channel(100): the depth of a worker's inbox
InboxCap == 100

\* The commands callers make
MaxCmds == 3

\* A Command and what becomes of it.  worker: the worker get_worker chose; st:
\* "selected" (the caller is in send), "queued" (in the inbox), "running" (the
\* worker executes it), "done"; dropped: the caller has dropped its reply
\* receiver; on: the state of the worker's stream when the execution began;
\* runs: how many times it was executed; sent: the outcomes sent on its reply
\* channel, outcome: the last of them
Command(w) ==
    [worker |-> w, st |-> "selected", dropped |-> FALSE, on |-> "none",
     runs |-> 0, sent |-> 0, outcome |-> "none"]

\* A get_worker that always takes the first worker
GetWorkerFirst(n) == 0

\* get_worker: the index for the value n that fetch_add has returned
GetWorker(n) == n % NumWorkers

\* A caller makes its command and its reply channel and calls get_worker
CallerSelect ==
    /\ Len(cmds) < MaxCmds
    /\ cmds' = Append(cmds, Command(GetWorker(next_worker)))
    /\ next_worker' = next_worker + 1
    /\ UNCHANGED << cfg, guardVars, latency, hostVars, clientVars, readerVars, read_alive,
                    write_alive, tasks, channel, writerVars, dataVars, respVars,
                    workers, worker_pc, stream, executed >>

\* send(cmd).await returns: the command is in the inbox of its worker
CallerSend(n) ==
    /\ n \in 1..Len(cmds)
    /\ cmds[n].st = "selected"
    /\ Len(workers[cmds[n].worker]) < InboxCap
    /\ workers' = [workers EXCEPT ![cmds[n].worker] = Append(@, n)]
    /\ cmds' = [cmds EXCEPT ![n].st = "queued"]
    /\ UNCHANGED << cfg, guardVars, latency, hostVars, clientVars, readerVars, read_alive,
                    write_alive, tasks, channel, writerVars, dataVars, respVars,
                    next_worker, worker_pc, stream, executed >>

\* The caller's future is dropped while it waits for the reply (the 200 ms
\* timeout of the dispatcher): the reply receiver is gone
CallerDrop(n) ==
    /\ n \in 1..Len(cmds)
    /\ cmds[n].st \in {"queued", "running"}
    /\ ~cmds[n].dropped
    /\ cmds' = [cmds EXCEPT ![n].dropped = TRUE]
    /\ UNCHANGED << cfg, guardVars, latency, hostVars, clientVars, readerVars, read_alive,
                    write_alive, tasks, channel, writerVars, dataVars, respVars,
                    next_worker, workers, worker_pc, stream, executed >>

\* TcpStream::connect returns: with a stream the worker goes on to its inbox,
\* without one it sleeps 100 ms
WorkerConnect(w, ok) ==
    /\ worker_pc[w] = "connect"
    /\ worker_pc' = [worker_pc EXCEPT ![w] = IF ok THEN "recv" ELSE "sleep"]
    /\ stream' = [stream EXCEPT ![w] = IF ok THEN "ok" ELSE "none"]
    /\ UNCHANGED << cfg, guardVars, latency, hostVars, clientVars, readerVars, read_alive,
                    write_alive, tasks, channel, writerVars, dataVars, respVars,
                    next_worker, workers, cmds, executed >>

\* The 100 ms are over: continue, back to connect
WorkerWake(w) ==
    /\ worker_pc[w] = "sleep"
    /\ worker_pc' = [worker_pc EXCEPT ![w] = "connect"]
    /\ UNCHANGED << cfg, guardVars, latency, hostVars, clientVars, readerVars, read_alive,
                    write_alive, tasks, channel, writerVars, dataVars, respVars,
                    next_worker, workers, stream, cmds, executed >>

\* A worker that looks at the oldest command of its inbox and leaves it there
WorkerRecvPeek(w) ==
    /\ worker_pc[w] = "recv"
    /\ workers[w] # <<>>
    /\ workers' = workers
    /\ executed' = [executed EXCEPT ![w] = Append(@, Head(workers[w]))]
    /\ cmds' = [cmds EXCEPT ![Head(workers[w])].st = "running",
                            ![Head(workers[w])].on = stream[w],
                            ![Head(workers[w])].runs = @ + 1]
    /\ worker_pc' = [worker_pc EXCEPT ![w] = "execute"]
    /\ UNCHANGED << cfg, guardVars, latency, hostVars, clientVars, readerVars, read_alive,
                    write_alive, tasks, channel, writerVars, dataVars, respVars,
                    next_worker, stream >>

\* receiver.recv() returns the oldest command of the inbox and the worker
\* starts to execute it on the stream it has
WorkerRecv(w) ==
    /\ worker_pc[w] = "recv"
    /\ workers[w] # <<>>
    /\ workers' = [workers EXCEPT ![w] = Tail(@)]
    /\ executed' = [executed EXCEPT ![w] = Append(@, Head(workers[w]))]
    /\ cmds' = [cmds EXCEPT ![Head(workers[w])].st = "running",
                            ![Head(workers[w])].on = stream[w],
                            ![Head(workers[w])].runs = @ + 1]
    /\ worker_pc' = [worker_pc EXCEPT ![w] = "execute"]
    /\ UNCHANGED << cfg, guardVars, latency, hostVars, clientVars, readerVars, read_alive,
                    write_alive, tasks, channel, writerVars, dataVars, respVars,
                    next_worker, stream >>

\* execute_get, execute_set or execute_delete returns and the worker sends the
\* result on the reply channel of the command, whether or not its receiver is
\* still there; then it is back at its inbox, on the same stream.  An I/O error
\* (a failed write or read, the peer gone) leaves the stream failed, and a
\* failed stream answers nothing.
WorkerReply(w, outcome) ==
    /\ worker_pc[w] = "execute"
    /\ outcome \in {"answer", "io_error"}
    /\ stream[w] = "failed" => outcome = "io_error"
    /\ cmds' = [cmds EXCEPT ![executed[w][Len(executed[w])]].st = "done",
                            ![executed[w][Len(executed[w])]].sent = @ + 1,
                            ![executed[w][Len(executed[w])]].outcome = outcome]
    /\ stream' = [stream EXCEPT ![w] = IF outcome = "io_error" THEN "failed" ELSE @]
    /\ worker_pc' = [worker_pc EXCEPT ![w] = "recv"]
    /\ UNCHANGED << cfg, guardVars, latency, hostVars, clientVars, readerVars, read_alive,
                    write_alive, tasks, channel, writerVars, dataVars, respVars,
                    next_worker, workers, executed >>

\* ------------------------------------------------------------ specification
\* What an earlier set of value v with flags 0 has left in the backend
Held(c, k, v) == Bytes(BackendStored(c.backend, SetTransportValue(c.flags, SetReq(k, 0, v))))

\* The state of a connection that has just been accepted, with configuration c,
\* backend content st and local cache content l
Accepted(c, st, l) ==
    /\ cfg = c
    /\ client_eof = FALSE
    /\ seen = <<>>
    /\ reader_pc = "read"
    /\ sequence = 0
    /\ read_alive = TRUE
    /\ write_alive = TRUE
    /\ tasks = <<>>
    /\ channel = <<>>
    /\ writer_pc = "recv"
    /\ next_sequence = 0
    /\ backlog = {}
    /\ write_buffer = <<>>
    /\ wire = <<>>
    /\ local = l
    /\ store = st
    /\ now = 0
    /\ process = "running"
    /\ got = [entry |-> NoCacheEntry, at |-> 0]
    /\ latency = [r \in Rpcs |-> NoObservations]
    /\ resp_pc = "read"
    /\ resp_buf = <<>>
    /\ result = "none"
    /\ response_buf = <<>>
    /\ resp_wire = <<>>
    /\ advanced = 0
    /\ next_worker = 0
    /\ workers = [w \in Workers |-> <<>>]
    /\ worker_pc = [w \in Workers |-> "connect"]
    /\ stream = [w \in Workers |-> "none"]
    /\ cmds = <<>>
    /\ executed = [w \in Workers |-> <<>>]
    /\ recorded_flag = FALSE
    /\ clones = 1

\* Spec: a connection whose client pipelines requests freely, with or without a
\* local cache.  The backend holds a value for each key; the local cache of the
\* process is empty.
\* The TTL of the local cache in the specifications that leave the clock alone
LocalTtl == 2 * TicksPerSec

Configs ==
    [flags : {TRUE}, cache : {"none", "moka"}, backend : {"momento"}, ttl : {LocalTtl}]

Init ==
    \E c \in Configs :
        Accepted(c, [k \in Keys |-> Held(c, k, <<7>>)], [k \in Keys |-> NoEntry])

Next ==
    \/ \E r \in Requests : ReaderRead(r)
    \/ \E s \in 1..MaxReqs : TaskStart(s)
    \/ \E s \in 1..MaxReqs, i \in 1..MaxKeys, o \in Outcomes : BackendReply(s, i, o)
    \/ \E s \in 1..MaxReqs : TaskFinish(s)
    \/ \E k \in Keys : LocalExpire(k)
    \/ WriterRecv
    \/ WriterWrite(TRUE)

Spec == Init /\ [][Next]_vars

\* SpecGet: one get of up to MaxKeys keys on a fresh connection, for every
\* content of the local cache and for a backend that holds a and b, and for c
\* either nothing or a value too short to carry flags.
KeyLists == UNION {[1..n -> Keys] : n \in 1..MaxKeys}

GetConfigs ==
    [flags : BOOLEAN, cache : {"none", "moka"}, backend : {"momento"}, ttl : {LocalTtl}]

LocalContents(c) ==
    IF c.cache = "none" THEN {[k \in Keys |-> NoEntry]}
    ELSE {[k \in Keys |-> IF k \in ks THEN EntryOf(c.cache, c.ttl, 0, Value(k, 3, <<9>>))
                                      ELSE NoEntry] : ks \in SUBSET Keys}

InitGet ==
    \E c \in GetConfigs : \E l \in LocalContents(c), short \in BOOLEAN :
        Accepted(c,
                 [k \in Keys |-> IF k # "c" THEN Held(c, k, <<7>>)
                                 ELSE IF short THEN Bytes(<<1, 2>>) ELSE NoBytes],
                 l)

NextGet ==
    \/ \E ks \in KeyLists : Len(tasks) = 0 /\ ReaderRead(GetReq(ks))
    \/ TaskStart(1)
    \/ \E i \in 1..MaxKeys, o \in Outcomes : BackendReply(1, i, o)
    \/ TaskFinish(1)
    \/ \E k \in Keys : LocalExpire(k)
    \/ WriterRecv
    \/ WriterWrite(TRUE)

SpecGet == InitGet /\ [][NextGet]_vars

\* SpecSeq: a client that sends each request only after it has read the answer
\* to the one before, against every configuration: flags mode on or off, no
\* local cache or one of the three tiers, either backend; backend and local
\* cache start empty.
SeqConfigs == [flags : BOOLEAN, cache : {"none"} \cup Tiers,
               backend : {"momento", "memcached"}, ttl : {LocalTtl}]

\* 16909060 = 0x01020304
SeqRequests ==
    {SetReq("b", f, v) : f \in {42, 16909060}, v \in {<<1>>, <<1, 2, 3, 4>>, <<1, 2, 3, 4, 5>>}}
        \cup {GetReq(<<"b">>)}

InitSeq ==
    \E c \in SeqConfigs :
        Accepted(c, [k \in Keys |-> NoBytes], [k \in Keys |-> NoEntry])

NextSeq ==
    \/ \E r \in SeqRequests : Len(wire) = Len(tasks) /\ ReaderRead(r)
    \/ \E s \in 1..MaxReqs : TaskStart(s)
    \/ \E s \in 1..MaxReqs, o \in Outcomes : BackendReply(s, 1, o)
    \/ \E s \in 1..MaxReqs : TaskFinish(s)
    \/ LocalExpire("b")
    \/ WriterRecv
    \/ WriterWrite(TRUE)

SpecSeq == InitSeq /\ [][NextSeq]_vars

\* SpecLife: the life of a connection from accept to the end of both tasks: the
\* client pipelines gets and unsupported commands and hangs up when it
\* likes, backend calls fail or time out, writes to the socket fail.  No local
\* cache.
LifeRequests == {GetReq(<<"a">>), OtherReq}

LifeConfig ==
    [flags |-> TRUE, cache |-> "none", backend |-> "momento", ttl |-> LocalTtl]

InitLife ==
    Accepted(LifeConfig, [k \in Keys |-> Held(LifeConfig, k, <<7>>)],
             [k \in Keys |-> NoEntry])

NextLife ==
    \/ \E r \in LifeRequests : ReaderRead(r)
    \/ ReaderEof
    \/ ReaderGrace
    \/ \E s \in 1..MaxReqs : TaskStart(s)
    \/ \E s \in 1..MaxReqs, o \in Outcomes : BackendReply(s, 1, o)
    \/ \E s \in 1..MaxReqs : TaskFinish(s)
    \/ WriterRecv
    \/ \E ok \in BOOLEAN : WriterWrite(ok)
    \/ WriterClosed

SpecLife == InitLife /\ [][NextLife]_vars

\* SpecSet: a connection whose client sends sets of b, with a value or an empty
\* one, with or without noreply; it reads the answer to a request before it
\* sends the next one, except after a noreply set, which it expects no
\* answer to.  Flags mode on, a local cache in front of the backend, which holds
\* nothing at the start.
SetRequests ==
    {SetReqWith("b", 42, v, NoTtl, nr) : v \in {<<>>, <<1>>}, nr \in BOOLEAN}

SetConfig ==
    [flags |-> TRUE, cache |-> "moka", backend |-> "momento", ttl |-> LocalTtl]

InitSet ==
    Accepted(SetConfig, [k \in Keys |-> NoBytes], [k \in Keys |-> NoEntry])

NextSet ==
    \/ \E r \in SetRequests :
          /\ \A i \in 1..Len(tasks) :
                tasks[i].req.noreply \/ \E p \in 1..Len(wire) : wire[p].seq = i - 1
          /\ ReaderRead(r)
    \/ \E s \in 1..MaxReqs : TaskStart(s)
    \/ \E s \in 1..MaxReqs, o \in Outcomes : BackendReply(s, 1, o)
    \/ \E s \in 1..MaxReqs : TaskFinish(s)
    \/ WriterRecv
    \/ WriterWrite(TRUE)

SpecSet == InitSet /\ [][NextSet]_vars

\* SpecFault: the life of a connection as in SpecLife, where the client may
\* also send bytes that do not parse and a dispatch task may panic.
NextFault ==
    \/ \E r \in LifeRequests : ReaderRead(r)
    \/ ReaderEof
    \/ ReaderMalformed
    \/ ReaderGrace
    \/ \E s \in 1..MaxReqs : TaskStart(s)
    \/ \E s \in 1..MaxReqs, o \in Outcomes : BackendReply(s, 1, o)
    \/ \E s \in 1..MaxReqs : TaskFinish(s)
    \/ \E s \in 1..MaxReqs : TaskPanic(s)
    \/ WriterRecv
    \/ \E ok \in BOOLEAN : WriterWrite(ok)
    \/ WriterClosed

SpecFault == InitLife /\ [][NextFault]_vars

\* SpecTtl: a client that sends sets of b with a TTL of its choice or with none,
\* each after the answer to the one before, against either backend.
TtlRequests ==
    {SetReqWith("b", 0, <<1>>, t, FALSE) : t \in {NoTtl, Ttl(-1), Ttl(0), Ttl(1), Ttl(3)}}

TtlConfigs ==
    [flags : {TRUE}, cache : {"none"}, backend : {"momento", "memcached"},
     ttl : {LocalTtl}]

InitTtl ==
    \E c \in TtlConfigs :
        Accepted(c, [k \in Keys |-> NoBytes], [k \in Keys |-> NoEntry])

NextTtl ==
    \/ \E r \in TtlRequests : Len(wire) = Len(tasks) /\ ReaderRead(r)
    \/ \E s \in 1..MaxReqs : TaskStart(s)
    \/ \E s \in 1..MaxReqs, o \in Outcomes : BackendReply(s, 1, o)
    \/ \E s \in 1..MaxReqs : TaskFinish(s)
    \/ WriterRecv
    \/ WriterWrite(TRUE)

SpecTtl == InitTtl /\ [][NextTtl]_vars

\* SpecCache: the local cache on its own: set, get and delete of the keys a and
\* b in any order while the clock advances, for each tier and for a TTL of no
\* time, half a second, one second and one and a half seconds.
CacheConfigs ==
    [flags : {TRUE}, cache : Tiers, backend : {"momento"},
     ttl : 0..(TicksPerSec + 1)]

InitCache ==
    \E c \in CacheConfigs :
        Accepted(c, [k \in Keys |-> NoBytes], [k \in Keys |-> NoEntry])

NextCache ==
    \/ \E k \in {"a", "b"} : CacheSet(k, Value(k, 42, <<1>>))
    \/ \E k \in {"a", "b"} : CacheGet(k)
    \/ \E k \in {"a", "b"} : CacheDelete(k)
    \/ \E k \in {"a", "b"} : LocalExpire(k)
    \/ Tick

SpecCache == InitCache /\ [][NextCache]_vars

\* SpecWeight: the local cache on its own, for each tier and for a small and a
\* large max_bytes: sets of values of one and of three bytes, deletes, and the
\* evictions of the cache library.
SmallCache == 8
LargeCache == 80

WeightConfigs ==
    [flags : {TRUE}, cache : Tiers, backend : {"momento"}, ttl : {LocalTtl},
     max_bytes : {SmallCache, LargeCache}]

InitWeight ==
    \E c \in WeightConfigs :
        Accepted(c, [k \in Keys |-> NoBytes], [k \in Keys |-> NoEntry])

NextWeight ==
    \/ \E k \in Keys, d \in {<<1>>, <<1, 2, 3>>} : CacheSet(k, Value(k, 0, d))
    \/ \E k \in Keys : CacheDelete(k)
    \/ \E k \in Keys : CacheEvict(k)

SpecWeight == InitWeight /\ [][NextWeight]_vars

\* SpecClamp: the local cache on its own, for each tier and for a configured
\* memory_cache_ttl_seconds of 0 (no limit), one second, five years less a
\* second, five years, five years and a second, and ten years.
FiveYearsSecs == 5 * 365 * 24 * 3600

ClampConfigs ==
    [flags : {TRUE}, cache : Tiers, backend : {"momento"},
     ttl : {LocalCacheTtl(secs) :
                secs \in {0, 1, FiveYearsSecs - 1, FiveYearsSecs, FiveYearsSecs + 1,
                          2 * FiveYearsSecs}}]

InitClamp ==
    \E c \in ClampConfigs :
        Accepted(c, [k \in Keys |-> NoBytes], [k \in Keys |-> NoEntry])

NextClamp ==
    \/ \E k \in {"a", "b"} : CacheSet(k, Value(k, 42, <<1>>))
    \/ \E k \in {"a", "b"} : CacheGet(k)
    \/ \E k \in {"a", "b"} : CacheDelete(k)
    \/ Tick

SpecClamp == InitClamp /\ [][NextClamp]_vars

\* SpecResp: a RESP connection whose client sends zscore, zadd (plain or with
\* CH), zrange (plain or BYLEX), a command without a dispatcher and bytes that
\* do not parse, one or two requests to a read, and hangs up when it likes;
\* backend calls fail or time out, writes to the socket fail.
RespRequests ==
    {RespReq("zscore", ""), RespReq("zadd", ""), RespReq("zadd", "CH"),
     RespReq("zrange", ""), RespReq("zrange", "BYLEX"), RespReq("ping", ""),
     RespReq("malformed", "")}

RespBatches == UNION {[1..n -> RespRequests] : n \in 1..2}

NextResp ==
    \/ \E batch \in RespBatches : RespRead(batch)
    \/ RespEof
    \/ \E o \in {"answer", "err", "timeout"} : RespBackendReply(o)
    \/ \E ok \in BOOLEAN : RespWrite(ok)
    \/ \E ok \in BOOLEAN : RespWriteMalformed(ok)

SpecResp == InitLife /\ [][NextResp]_vars

\* SpecRespLive: the same with a handler that is scheduled, a backend call that
\* returns (the dispatchers give it 200 ms) and a socket write that returns;
\* the client sends more bytes or hangs up only if it likes.
SpecRespLive ==
    /\ SpecResp
    /\ WF_vars(\E o \in {"answer", "err", "timeout"} : RespBackendReply(o))
    /\ WF_vars(\E ok \in BOOLEAN : RespWrite(ok))
    /\ WF_vars(\E ok \in BOOLEAN : RespWriteMalformed(ok))

\* SpecPool: the worker pool of LocalMemcachedBackend with callers that make
\* commands concurrently and give up on replies; connects fail, commands meet
\* I/O errors.  SpecPoolLive: the same with workers that are scheduled and a
\* peer that answers or fails.
NextPool ==
    \/ CallerSelect
    \/ \E n \in 1..MaxCmds : CallerSend(n)
    \/ \E n \in 1..MaxCmds : CallerDrop(n)
    \/ \E w \in Workers, ok \in BOOLEAN : WorkerConnect(w, ok)
    \/ \E w \in Workers : WorkerWake(w)
    \/ \E w \in Workers : WorkerRecv(w)
    \/ \E w \in Workers, o \in {"answer", "io_error"} : WorkerReply(w, o)

SpecPool == InitLife /\ [][NextPool]_vars

SpecPoolLive ==
    /\ SpecPool
    /\ \A w \in Workers :
          /\ WF_vars(WorkerRecv(w))
          /\ WF_vars(\E o \in {"answer", "io_error"} : WorkerReply(w, o))

\* SpecGuard: one RpcCallGuard, cloned, completed and dropped in any order
NextGuard ==
    \/ GuardClone
    \/ \E kind \in {"ok", "error", "miss", "hit_mcache", "hit_momento"} : GuardComplete(kind)
    \/ GuardDropOne

SpecGuard == InitLife /\ [][NextGuard]_vars

\* ------------------------------------------------------------- wire frames
Frame(f, v) == [f |-> f, key |-> v.key, flags |-> v.flags, data |-> v.data]

\* The frames compose_response puts on the wire for a response to a get or set
\* or delete: `VALUE <key> <flags> <n>` with its data block per value and then
\* END; END alone for a get that found nothing; else the one line of the response
Frames(resp) ==
    CASE resp.kind = "values" ->
            [i \in 1..Len(resp.values) |-> Frame("VALUE", resp.values[i])]
                \o <<Frame("END", NoValue)>>
      [] resp.kind = "not_found" -> <<Frame("END", NoValue)>>
      [] resp.kind = "stored" -> <<Frame("STORED", NoValue)>>
      [] resp.kind = "stored_noreply" -> <<>>
      [] resp.kind = "deleted" -> <<Frame("DELETED", NoValue)>>
      [] resp.kind = "server_error" -> <<Frame("SERVER_ERROR", NoValue)>>
      [] OTHER -> <<Frame("CLIENT_ERROR", NoValue)>>

\* ------------------------------------------------------- reading the wire
\* The response to the request of task i (sequence i - 1) is among the first n
\* responses on the wire
Answered(i, n) == \E p \in 1..n : p <= Len(wire) /\ wire[p].seq = i - 1

\* The response on the wire to the request of task i
Answer(i) == (CHOOSE e \in {wire[p] : p \in 1..Len(wire)} : e.seq = i - 1).resp

\* Task m carries a request of one of the kinds ops on key k
Touches(m, ops, k) == tasks[m].req.op \in ops /\ tasks[m].req.keys[1] = k

\* The client sent the get of task j for the key k of the set or delete of task
\* i after it had read the answer to task i, the connection carries no other
\* request of the kinds ops on k (in particular none in between), and the get
\* was answered without a backend failure
GetAfter(i, j, ops) ==
    /\ i < j
    /\ tasks[j].req.op = "get"
    /\ tasks[j].req.keys = tasks[i].req.keys
    /\ \A m \in 1..Len(tasks) : m # i => ~Touches(m, ops, tasks[i].req.keys[1])
    /\ Answered(i, seen[j])
    /\ Answered(j, Len(wire))
    /\ Answer(j).kind # "server_error"

\* ------------------------------------------------------ claims on ordering
\* The responses the writer has composed: those on the wire, then those in its
\* write buffer
Composed == wire \o write_buffer

\* C1: whatever order the dispatch tasks complete in, the responses are composed
\* and written in the order the reader parsed the requests: the response of
\* sequence i never comes after the response of a sequence j > i.
C1_ResponsesInRequestOrder ==
    \A p \in 1..Len(Composed), q \in 1..Len(Composed) :
        p < q => Composed[p].seq < Composed[q].seq

\* the third request was answered before the second: the writer kept its
\* response in the backlog and has now composed the second and the third
\* response, in this order, behind the first one on the wire
C1_Witness ==
    /\ Len(wire) = 1 /\ wire[1].seq = 0
    /\ Len(write_buffer) = 2
    /\ write_buffer[1].seq = 1 /\ write_buffer[2].seq = 2

\* ------------------------------------------------------------------ claims
\* C2: with a local cache, a get(k) the client sends after reading the STORED of
\* set(k, v), with no other set or delete of k in between, returns a VALUE
\* frame carrying v, whatever other dispatch tasks are in flight.
C2_ReadYourWrite ==
    cfg.cache # "none" =>
        \A i \in 1..Len(tasks), j \in 1..Len(tasks) :
            ( /\ tasks[i].req.op = "set"
              /\ GetAfter(i, j, {"set", "delete"})
              /\ Answer(i).kind = "stored" )
            => /\ Answer(j).kind = "values"
               /\ Answer(j).values[1].data = tasks[i].req.value

\* C3: `get a`, `set b`, `get b` sent as one burst: the wire carries the answer
\* to `get a`, then STORED, then a VALUE frame for b with the value just set.
C3_BurstObservesSet ==
    ( /\ Len(tasks) = 3
      /\ tasks[1].req = GetReq(<<"a">>)
      /\ tasks[2].req.op = "set" /\ tasks[2].req.keys = <<"b">>
      /\ tasks[3].req = GetReq(<<"b">>)
      /\ seen = <<0, 0, 0>>
      /\ Len(wire) = 3
      /\ wire[2].resp.kind = "stored"
      /\ wire[3].resp.kind # "server_error" )
    => /\ wire[1].seq = 0 /\ wire[2].seq = 1 /\ wire[3].seq = 2
       /\ wire[3].resp.kind = "values"
       /\ wire[3].resp.values[1].key = "b"
       /\ wire[3].resp.values[1].data = tasks[2].req.value

\* C4: a get(k) the client sends after reading the answer to delete(k), with no
\* set of k in between, returns a miss, also when a get(k) pipelined before the
\* delete is still in flight.
C4_DeleteThenMiss ==
    \A i \in 1..Len(tasks), j \in 1..Len(tasks) :
        ( /\ tasks[i].req.op = "delete"
          /\ GetAfter(i, j, {"set"})
          /\ Answer(i).kind = "deleted" )
        => Answer(j).kind = "not_found"

\* ------------------------------------------------- claims on the get path
\* Every response a dispatch task has produced, wherever it is by now: in the
\* channel, in the writer's backlog, composed, or on the wire
Results ==
    {[seq |-> m.seq, resp |-> m.resp] : m \in {channel[p] : p \in 1..Len(channel)}}
        \cup backlog
        \cup {write_buffer[p] : p \in 1..Len(write_buffer)}
        \cup {wire[p] : p \in 1..Len(wire)}

\* The task a result belongs to
TaskOf(r) == tasks[r.seq + 1]

\* The backend call of position i of task t failed or timed out
Failed(t, i) == t.calls[i].st \in {"err", "timeout"}

\* Position i of get task t has a value: a local hit, or a backend hit that
\* decodes to a value
HasValue(t, i) ==
    \/ t.slots[i].some
    \/ t.calls[i].st = "hit" /\ RunGet(cfg.flags, t.req.keys[i], t.calls[i]).res = "some"

\* The n-th smallest element of the set P of positions
Nth(P, n) == CHOOSE i \in P : Cardinality({j \in P : j <= i}) = n

C9_ValuesInKeyOrder ==
    \A r \in Results :
        LET t == TaskOf(r)
            P == {i \in 1..Len(t.req.keys) : HasValue(t, i)}
            vf == SelectSeq(Frames(r.resp), LAMBDA x : x.f = "VALUE")
        IN  (t.req.op = "get" /\ \A i \in 1..Len(t.calls) : ~Failed(t, i))
            => /\ Len(vf) = Cardinality(P)
               /\ \A n \in 1..Len(vf) : vf[n].key = t.req.keys[Nth(P, n)]

\* a get of three different keys answered with the VALUE frames of its first
\* and third key, one a local hit and one a backend hit, the second key a miss
C9_Witness ==
    \E r \in Results :
        LET t == TaskOf(r)
        IN  /\ t.req.op = "get" /\ Len(t.req.keys) = 3
            /\ Cardinality({t.req.keys[i] : i \in 1..3}) = 3
            /\ r.resp.kind = "values" /\ Len(r.resp.values) = 2
            /\ r.resp.values[1].key = t.req.keys[1]
            /\ r.resp.values[2].key = t.req.keys[3]
            /\ t.calls[1].st = "hit" /\ t.calls[2].st = "miss" /\ t.slots[3].some

\* C10: a get of k keys of which h were found in the local cache issues exactly
\* k - h backend calls, one for each key not found locally (k when there is no
\* local cache), and its response is at most k VALUE frames and then exactly one
\* terminator (END, or the SERVER_ERROR line when a backend call failed).
C10_BackendCallsAndFrames ==
    /\ \A s \in 1..Len(tasks) :
          LET t == tasks[s]
              k == Len(t.req.keys)
              h == Cardinality({i \in 1..k : t.slots[i].some})
              issued == {i \in 1..k : t.calls[i].st # "none"}
          IN  (t.req.op = "get" /\ t.pc # "spawned")
              => /\ Cardinality(issued) = k - h
                 /\ issued = {i \in 1..k : ~t.slots[i].some}
                 /\ cfg.cache = "none" => Cardinality(issued) = k
    /\ \A r \in Results :
          LET t == TaskOf(r)
              fr == Frames(r.resp)
          IN  t.req.op = "get"
              => /\ Len(fr) >= 1 /\ Len(fr) - 1 <= Len(t.req.keys)
                 /\ fr[Len(fr)].f \in {"END", "SERVER_ERROR"}
                 /\ \A n \in 1..(Len(fr) - 1) : fr[n].f = "VALUE"

\* a get of three keys, one found locally, with two backend calls, answered with
\* three VALUE frames and END
C10_Witness ==
    \E r \in Results :
        LET t == TaskOf(r)
        IN  /\ t.req.op = "get" /\ Len(t.req.keys) = 3
            /\ Cardinality({i \in 1..3 : t.slots[i].some}) = 1
            /\ Cardinality({i \in 1..3 : t.calls[i].st # "none"}) = 2
            /\ Len(Frames(r.resp)) = 4

\* ---------------------------------------------- claims on value round trips
\* Task i is a set that was answered STORED and task i + 1 is a get of the same
\* key that was answered without a backend failure
SetThenGet(i) ==
    /\ i + 1 <= Len(tasks)
    /\ tasks[i].req.op = "set"
    /\ tasks[i + 1].req = GetReq(tasks[i].req.keys)
    /\ Answered(i, Len(wire)) /\ Answer(i).kind = "stored"
    /\ Answered(i + 1, Len(wire)) /\ Answer(i + 1).kind # "server_error"

\* C5: flags mode on, no local cache, either backend: a set with flags F and
\* payload P followed by a get of the key yields flags F and payload P.
C5_FlagsRoundTrip ==
    (cfg.flags /\ cfg.cache = "none") =>
        \A i \in 1..Len(tasks) :
            SetThenGet(i) =>
                Answer(i + 1) = RespValues(<<Value(tasks[i].req.keys[1],
                                                   tasks[i].req.flags, tasks[i].req.value)>>)

\* C6: flags mode off, no local cache, either backend: the backend holds exactly
\* the payload P after the set, and a following get yields flags 0 and payload P.
C6_RawRoundTrip ==
    (~cfg.flags /\ cfg.cache = "none") =>
        \A i \in 1..Len(tasks) :
            SetThenGet(i) =>
                Answer(i + 1) = RespValues(<<Value(tasks[i].req.keys[1], 0,
                                                   tasks[i].req.value)>>)

\* C7: in each tier, the value a local hit returns after a set has the key, the
\* flags and the data of the value that was set (flags 42 in flags mode stay 42).
C7_LocalRoundTrip ==
    (cfg.cache # "none") =>
        \A i \in 1..Len(tasks) :
            ( /\ i + 1 <= Len(tasks)
              /\ tasks[i].req.op = "set"
              /\ Answered(i, Len(wire)) /\ Answer(i).kind = "stored"
              /\ tasks[i + 1].req = GetReq(tasks[i].req.keys)
              /\ tasks[i + 1].pc # "spawned"
              /\ tasks[i + 1].slots[1].some )
            => tasks[i + 1].slots[1] =
                   Value(tasks[i].req.keys[1],
                         IF cfg.flags THEN tasks[i].req.flags ELSE 0,
                         tasks[i].req.value)

\* ------------------------------------------------- claims on failure handling
\* C11: a get of one key whose backend call missed the 200 ms deadline is treated
\* as a miss: the client receives END alone, no VALUE frame and no error frame.
C11_TimeoutIsMiss ==
    \A r \in Results :
        ( /\ TaskOf(r).req.op = "get"
          /\ Len(TaskOf(r).req.keys) = 1
          /\ TaskOf(r).calls[1].st = "timeout" )
        => Frames(r.resp) = <<Frame("END", NoValue)>>

\* The connection is open: reader and writer are both at work and neither flag
\* has been cleared
Open ==
    /\ read_alive /\ write_alive
    /\ reader_pc = "read" /\ writer_pc # "done"

\* The client sent the request of task j having read the answer to task i
SentAfterAnswer(i, j) == i < j /\ j <= Len(tasks) /\ Answered(i, seen[j])

\* C12: a set with a non-empty value (and without noreply) is answered STORED
\* when the backend set succeeds, SERVER_ERROR when the backend fails and
\* SERVER_ERROR "backend timeout" when the deadline passes; its result reaches
\* the writer as a response, never as an error, and the connection stays open.
C12_SetOutcomes ==
    /\ Open
    /\ \A p \in 1..Len(channel) :
          tasks[channel[p].seq + 1].req.op = "set" => channel[p].ok
    /\ \A r \in Results :
          (TaskOf(r).req.op = "set" /\ TaskOf(r).req.value # <<>> /\ ~TaskOf(r).req.noreply)
          => CASE TaskOf(r).calls[1].st = "ok" -> r.resp = RespStored
               [] TaskOf(r).calls[1].st = "timeout" ->
                      r.resp = RespServerError("backend timeout")
               [] OTHER -> r.resp.kind = "server_error" /\ r.resp.msg # "backend timeout"

\* a set was answered SERVER_ERROR backend timeout, the client read the answer
\* and sent another request, and this one has been answered too
C12_Witness ==
    \E i, j \in 1..Len(tasks) :
        /\ tasks[i].req.op = "set" /\ tasks[i].req.value # <<>>
        /\ SentAfterAnswer(i, j)
        /\ Answer(i) = RespServerError("backend timeout")
        /\ Answered(j, Len(wire))

\* C13: a set with an empty value makes no backend call, leaves the local cache
\* and the backend as they are, is answered CLIENT_ERROR and leaves the
\* connection open: every step of its dispatch task keeps local and store, issues
\* no call, and sends the CLIENT_ERROR response when it finishes.
C13_EmptySetRejected ==
    [][\A s \in 1..Len(tasks) :
          (tasks[s].req.op = "set" /\ tasks[s].req.value = <<>> /\ tasks'[s] # tasks[s])
          => /\ local' = local /\ store' = store
             /\ tasks'[s].calls = <<NoCall>>
             /\ read_alive' /\ write_alive'
             /\ tasks'[s].pc = "sent" =>
                   channel' = Append(channel,
                       Msg(TRUE, s - 1, RespClientError("empty values not supported")))]_vars

\* a set with an empty value was answered CLIENT_ERROR while the local cache
\* held an entry, and a request sent after that answer has been answered too
C13_Witness ==
    \E i, j \in 1..Len(tasks) :
        /\ tasks[i].req.op = "set" /\ tasks[i].req.value = <<>>
        /\ SentAfterAnswer(i, j)
        /\ Answer(i).kind = "client_error"
        /\ Answered(j, Len(wire))
        /\ local[tasks[i].req.keys[1]].some
        /\ Open

\* C14: the writer writes no bytes for a set that carries noreply, whatever the
\* outcome of the set: no composed response belongs to a noreply request.
C14_NoreplyWritesNothing ==
    \A p \in 1..Len(Composed) : ~tasks[Composed[p].seq + 1].req.noreply

\* The writer has taken the message of task n from the channel
Received(n) ==
    /\ tasks[n].pc = "sent"
    /\ \A p \in 1..Len(channel) : channel[p].seq # n - 1

\* C15: once the writer has taken the result of an unsupported command of
\* sequence n, the responses of all requests of a smaller sequence and an error
\* frame for the command itself have been composed for the wire, in whatever
\* order the dispatch tasks completed.
C15_UnsupportedFlushThenClose ==
    \A n \in 1..Len(tasks) :
        (tasks[n].req.op = "other" /\ Received(n))
        => \A i \in 1..n : \E p \in 1..Len(Composed) : Composed[p].seq = i - 1

\* C16: when the reader has left at a malformed request and the writer has ended
\* without a write error, an error response for the malformed request (one that
\* answers no dispatched request) is on the wire.
C16_MalformedAnswered ==
    (reader_pc = "returned" /\ writer_pc = "done" /\ write_buffer = <<>>)
    => \E p \in 1..Len(wire) :
          /\ wire[p].seq >= sequence
          /\ wire[p].resp.kind \in {"client_error", "server_error"}

\* C17: a panic in a dispatch task does not terminate the process.
C17_PanicIsContained ==
    \A s \in 1..Len(tasks) : tasks[s].pc = "panicked" => process = "running"

\* A write to the client socket has failed: the writer ended with composed
\* responses left in its buffer
WriteFailed == writer_pc = "done" /\ write_buffer # <<>>

\* C18: when a write to the client socket fails, read_alive and write_alive are
\* false from then on and the writer writes nothing more: every step that ends
\* in a state after a failed write ends with both flags false, and every step
\* that starts in one leaves the wire as it is.
C18_WriteErrorTerminates ==
    [][ /\ WriteFailed' => (~read_alive' /\ ~write_alive')
        /\ WriteFailed => (wire' = wire /\ write_buffer' = write_buffer /\ WriteFailed')
      ]_vars

\* a write failed after a first response had reached the client, while a
\* dispatch task had not yet sent its result
C18_Witness ==
    /\ WriteFailed
    /\ Len(wire) >= 1
    /\ \E s \in 1..Len(tasks) : tasks[s].pc # "sent"
    /\ ~read_alive /\ ~write_alive

C20_NoExpiredEntry ==
    got.entry.some => got.entry.expire_at > got.at

\* a cache with a TTL of a second or more holds an entry whose time has passed,
\* and a get of the key at this time reported it absent
C20_Witness ==
    \E k \in Keys :
        /\ local[k].some
        /\ got = [entry |-> NoCacheEntry, at |-> now]
        /\ now >= 2
        /\ TierGet(cfg.cache, local[k]) = NoCacheEntry
        /\ cfg.ttl >= TicksPerSec

\* ------------------------------------------------- claims on the local cache
\* The weight of an entry as len(key) + len(data) + the fixed overhead of the tier
EntryWeight(k, e) ==
    KeyLen(k) + Len(e.data) + (IF cfg.cache = "foyer" THEN FoyerOverhead ELSE ValueSize)

\* The entry weights of the entries held under the keys ks, added up
RECURSIVE HeldWeight(_)
HeldWeight(ks) ==
    IF ks = {} THEN 0
    ELSE LET k == CHOOSE x \in ks : TRUE
         IN  (IF local[k].some THEN EntryWeight(k, local[k]) ELSE 0)
                 + HeldWeight(ks \ {k})

\* No eviction is due: the cache library has nothing left to evict
Settled == \A k \in Keys : ~ENABLED CacheEvict(k)

C23_FatalErrorWritten ==
    resp_pc = "fatal"
    => \E p \in 1..Len(resp_wire) :
          /\ resp_wire[p].req = advanced + 1
          /\ resp_wire[p].line.err
          /\ result = "unsupported"
                => resp_wire[p].line = ErrLine("unsupported command", Head(resp_buf).cmd)

\* C24: when the dispatcher of a RESP request has ended in a backend timeout or
\* a backend error and the write of the response succeeds, that write puts
\* exactly one line on the wire, "-ERR backend timeout" for a timeout and an
\* "-ERR backend error" line for an error, the request leaves the ingress
\* buffer, and the handler is back in do_read for the requests that follow.
C24_BackendErrorNotFatal ==
    [][(resp_pc = "write" /\ result \in {"timeout", "momento"} /\ resp_pc' # "write_error")
        => /\ resp_wire' =
                 Append(resp_wire,
                        [req |-> advanced + 1, result |-> result,
                         line |-> IF result = "timeout"
                                      THEN ErrLine("backend timeout", "")
                                      ELSE ErrLine("backend error", "error")])
           /\ resp_buf' = Tail(resp_buf)
           /\ advanced' = advanced + 1
           /\ resp_pc' = "read"]_vars

\* C24 witness: a request that ended in a backend timeout has its one -ERR line
\* on the wire, and the request after it has been served its reply.
C24_Witness ==
    \E p \in 1..Len(resp_wire) :
        /\ resp_wire[p].result = "timeout"
        /\ resp_wire[p].line = ErrLine("backend timeout", "")
        /\ p < Len(resp_wire)
        /\ resp_wire[p + 1].req = resp_wire[p].req + 1
        /\ resp_wire[p + 1].result = "ok"

\* --------------------------------------------------- claims on the metrics
\* C25: for a get of one key whose only backend call has missed the 200 ms
\* deadline, the histograms of memcached_get hold exactly one timeout
\* observation and no ok or error observation, from the return of run_get on
\* and after every clone of the request's RpcCallGuard has been dropped.
C25_OneTimeoutObservation ==
    \A s \in 1..Len(tasks) :
        (/\ tasks[s].req.op = "get"
         /\ Len(tasks[s].req.keys) = 1
         /\ tasks[s].pc \in {"await", "sent"}
         /\ tasks[s].calls[1].st = "timeout")
        => /\ latency["memcached_get"].timeout = 1
           /\ latency["memcached_get"].ok = 0
           /\ latency["memcached_get"].error = 0

\* C25 witness: a get of one key has timed out at the backend, has sent its
\* SERVER_ERROR to the writer, and the one timeout observation is recorded.
C25_Witness ==
    /\ Len(tasks) = 1
    /\ tasks[1].req.op = "get"
    /\ Len(tasks[1].req.keys) = 1
    /\ tasks[1].pc = "sent"
    /\ tasks[1].calls[1].st = "timeout"
    /\ latency["memcached_get"].timeout = 1

\* ------------------------------------- claims on sequencing and shutdown
\* The number of messages, backlog entries and composed responses that carry
\* sequence number n
Copies(n) ==
    Cardinality({p \in 1..Len(channel) : channel[p].seq = n})
    + Cardinality({e \in backlog : e.seq = n})
    + Cardinality({p \in 1..Len(Composed) : Composed[p].seq = n})

\* C26: the requests accepted on a connection carry the sequence numbers 0, 1,
\* 2, ... in the order they were accepted, the sequence counter being the number
\* of requests accepted; a request's result is with the writer (in the channel,
\* in the backlog or composed) at most once, and only once its task has sent it;
\* next_sequence never exceeds the sequence counter.
C26_SequenceNumbers ==
    /\ sequence = Len(tasks)
    /\ \A s \in 1..Len(tasks) : tasks[s].seq = s - 1
    /\ next_sequence <= sequence
    /\ \A s \in 1..Len(tasks) :
          /\ Copies(s - 1) <= 1
          /\ Copies(s - 1) = 1 => tasks[s].pc = "sent"
    /\ \A p \in 1..Len(Composed) : Composed[p].seq < next_sequence

\* C26 witness: several requests were accepted, their tasks finished out of
\* order or not, and every response has been composed.
C26_Witness ==
    /\ sequence >= 2
    /\ next_sequence = sequence
    /\ Len(Composed) = sequence

\* C27: when the writer has stopped without a write error, read_alive is false,
\* next_sequence equals the sequence counter, and the response of every request
\* accepted on the connection is on the wire.
C27_WriterStopsDrained ==
    (writer_pc = "done" /\ ~WriteFailed)
    => /\ ~read_alive
       /\ next_sequence = sequence
       /\ \A s \in 1..Len(tasks) : Answered(s, Len(wire))

\* C28: the step in which a get sends SERVER_ERROR to the writer leaves the
\* local cache with exactly the entries it held.
C28_ErrorLeavesLocalCache ==
    [][\A s \in 1..Len(tasks) :
          (/\ tasks[s].req.op = "get"
           /\ tasks[s].pc = "await"
           /\ tasks'[s].pc = "sent"
           /\ channel'[Len(channel')].resp.kind = "server_error")
          => local' = local]_vars

\* C29: once the connection handler has returned, a dispatch task that has not
\* finished does nothing more: it makes no backend call, writes nothing to the
\* local cache and sends nothing to the writer.
C29_ClosedCancelsTasks ==
    [][(reader_pc = "done" \/ reader_pc = "returned")
        => (/\ \A s \in 1..Len(tasks) :
                  tasks[s].pc \in {"spawned", "await"} => tasks'[s] = tasks[s]
            /\ Len(channel') <= Len(channel)
            /\ local' = local)]_vars

\* C30 as stated: whenever the writer waits in recv, every sequence number of
\* the backlog is greater than next_sequence and the backlog holds at most
\* sequence - next_sequence - 1 entries.
C30_BacklogBoundAsStated ==
    writer_pc = "recv"
    => /\ \A e \in backlog : e.seq > next_sequence
       /\ Cardinality(backlog) <= sequence - next_sequence - 1

\* C30: whenever the writer waits in recv, every sequence number of the backlog
\* is greater than next_sequence, and a backlog that is not empty holds at most
\* sequence - next_sequence - 1 entries.
C30_BacklogBound ==
    writer_pc = "recv"
    => /\ \A e \in backlog : e.seq > next_sequence
       /\ backlog # {} => Cardinality(backlog) <= sequence - next_sequence - 1

\* C30 witness: the writer waits in recv with as many responses in its backlog
\* as the gap at next_sequence allows.
C30_Witness ==
    /\ writer_pc = "recv"
    /\ Cardinality(backlog) >= 2
    /\ Cardinality(backlog) = sequence - next_sequence - 1

\* ------------------------------------------- claims on the worker pool
\* C31: a worker begins the execution of a command only on a usable stream:
\* never on one on which an earlier command has met an I/O error.
C31_ExecutesOnUsableStream ==
    \A n \in 1..Len(cmds) : cmds[n].runs > 0 => cmds[n].on = "ok"

\* Every command is executed at most once and gets at most one outcome on its
\* reply channel, exactly one of each once it is done and none before it is
\* taken from the inbox; a worker executes one command at a time
ExecutedOnce ==
    /\ \A n \in 1..Len(cmds) :
          /\ cmds[n].runs <= 1
          /\ cmds[n].sent <= 1
          /\ cmds[n].st = "done" => cmds[n].runs = 1 /\ cmds[n].sent = 1
          /\ cmds[n].st \in {"selected", "queued"} => cmds[n].runs = 0 /\ cmds[n].sent = 0
          /\ cmds[n].runs = 1 =>
                 \E p \in 1..Len(executed[cmds[n].worker]) : executed[cmds[n].worker][p] = n
    /\ \A w \in Workers :
          Cardinality({n \in 1..Len(cmds) : cmds[n].worker = w /\ cmds[n].st = "running"}) <= 1

\* A worker takes the oldest command of its own inbox, and nothing else
TakesOldest ==
    \A w \in Workers :
        executed'[w] # executed[w]
        => /\ workers[w] # <<>>
           /\ executed'[w] = Append(executed[w], Head(workers[w]))
           /\ workers'[w] = Tail(workers[w])

Assigned(w) == Cardinality({n \in 1..Len(cmds) : cmds[n].worker = w})

\* C33: whatever the callers do in between, the n-th selection goes to worker
\* n mod NumWorkers (n from 0), any NumWorkers selections in a row take every
\* worker, and the numbers of commands assigned to two workers differ by at
\* most one.
C33_RoundRobin ==
    /\ next_worker = Len(cmds)
    /\ \A n \in 1..Len(cmds) : cmds[n].worker = (n - 1) % NumWorkers
    /\ \A i \in 1..Len(cmds) :
          i + NumWorkers - 1 <= Len(cmds)
          => {cmds[j].worker : j \in i..(i + NumWorkers - 1)} = Workers
    /\ \A v, w \in Workers : Assigned(v) - Assigned(w) <= 1

\* C33 witness: the selections have gone round the workers and on, and a caller
\* that selected later has sent its command before one that selected earlier.
C33_Witness ==
    /\ Len(cmds) > NumWorkers
    /\ \E n \in 1..(Len(cmds) - 1) : cmds[n].st = "selected" /\ cmds[n + 1].st # "selected"

\* ------------------------------------- claims on the local cache and sets
\* C34: once a set of k has been answered STORED, and no other request of the
\* connection sets or deletes k, the local cache holds for k nothing older than
\* the value of that set: a get of k that read the backend before the set does
\* not put what it read over it.
C34_NoStaleBackfill ==
    \A s \in 1..Len(tasks) :
        (/\ tasks[s].req.op = "set"
         /\ Answered(s, Len(wire))
         /\ Answer(s).kind = "stored"
         /\ \A j \in 1..Len(tasks) :
               j # s => ~Touches(j, {"set", "delete"}, tasks[s].req.keys[1]))
        => (local[tasks[s].req.keys[1]].some
               => local[tasks[s].req.keys[1]].data = tasks[s].req.value)

\* C35: when the first set of a connection has been answered SERVER_ERROR
\* because its backend call failed or timed out, the local cache, empty before
\* the set, is empty still: it does not hold the value the backend refused.
C35_FailedSetLeavesLocalCache ==
    (/\ Len(tasks) = 1
     /\ tasks[1].req.op = "set"
     /\ tasks[1].pc = "sent"
     /\ tasks[1].calls[1].st \in {"err", "timeout"})
    => \A k \in Keys : ~local[k].some

\* ---------------------------------------------- more claims on the metrics
\* The observations of the histograms of memcached_get
Lat == latency["memcached_get"]

\* C36: however one guard and its clones are completed and dropped, at most one
\* observation is made over the ok, error and timeout histograms together, and
\* when the last of them has been dropped some histogram has an observation.
C36_OneOutcomeObservation ==
    /\ Lat.ok + Lat.error + Lat.timeout <= 1
    /\ clones = 0
          => Lat.ok + Lat.error + Lat.timeout + Lat.miss + Lat.hit_mcache + Lat.hit_momento >= 1

\* C36 witness: every guard has been dropped; one was completed ok, and after
\* it complete_miss has observed as well.
C36_Witness ==
    /\ clones = 0
    /\ Lat.ok = 1
    /\ Lat.miss >= 1

\* C37: a get has a timeout observation only if one of its backend calls missed
\* the deadline, and a get of one key whose backend call has returned an error
\* has, once it has sent its response, one error observation and no timeout
\* observation.
C37_TimeoutOnlyPastDeadline ==
    \A s \in 1..Len(tasks) :
        tasks[s].req.op = "get"
        => /\ Lat.timeout > 0
                 => \E i \in 1..Len(tasks[s].calls) : tasks[s].calls[i].st = "timeout"
           /\ (/\ Len(tasks[s].req.keys) = 1
               /\ tasks[s].pc = "sent"
               /\ tasks[s].calls[1].st = "err")
                 => Lat.error = 1 /\ Lat.timeout = 0

\* ------------------------------------------------ claims on termination
\* C38: on a RESP connection every request that has been received whole is
\* eventually answered and consumed, unless the connection has ended, whether
\* or not the client sends anything more.
C38_PipelinedAnswered ==
    \A n \in 1..MaxReqs :
        (n <= advanced + Len(resp_buf))
        ~> (n <= advanced \/ resp_pc \in {"fatal", "hangup", "write_error"})

\* C39: once the writer has stopped and has cleared read_alive, no step adds a
\* dispatch task to the connection.
C39_NoSpawnAfterWriterStopped ==
    [][(writer_pc = "done" /\ ~read_alive) => Len(tasks') = Len(tasks)]_vars

\* The writer can take a step
WriterCanStep == ENABLED (WriterRecv \/ WriterClosed \/ \E ok \in BOOLEAN : WriterWrite(ok))

\* C40: when the reader has stopped at the end of the client's stream with the
\* response of every accepted request written, and the handler is in its grace
\* loop, the writer has terminated or is about to: it is not blocked.
C40_WriterEndsOnItsOwn ==
    (/\ reader_pc = "grace"
     /\ client_eof
     /\ Len(tasks) >= 1
     /\ \A s \in 1..Len(tasks) : Answered(s, Len(wire))
     /\ write_buffer = <<>>)
    => (writer_pc = "done" \/ WriterCanStep)

====
